---- MODULE Spec2Model ----
(***************************************************************************)
(* Model of the Dreamweaver Template Guard core: the marker parser         *)
(* (src/src/parser/dwtParser.ts), the template resolver                    *)
(* (src/src/template/templateResolver.ts) and the protection engine with   *)
(* its per-document state tracker.                                         *)
(*                                                                         *)
(* A document is a sequence of tokens.  A token is either one plain        *)
(* character or one whole marker comment, i.e. one match of one of the     *)
(* marker regular expressions; the regular expressions cannot match        *)
(* across two comments, so a scan for a marker family is a scan for the    *)
(* tokens of that kind.  Offsets count tokens: token i of a text occupies  *)
(* the half-open range [i-1, i).                                           *)
(***************************************************************************)
EXTENDS Integers, Sequences, FiniteSets, TLC

VARIABLES
    pText,      \* parser run: the text of the document handed to parseDocument
    pResult,    \* parser run: <<>> before the call, <<result>> after it
    rangeCall   \* a call of the range utilities: <<>> or <<[a, b]>>, then with the results

parserVars == <<pText, pResult, rangeCall>>

VARIABLES
    docText,            \* the open document's text
    docVersion,         \* its version, incremented by every change
    undoStack,          \* the editor's undo stack: the texts undo restores
    redoStack,          \* the editor's redo stack
    activeIsDoc,        \* the active text editor shows the document
    enableProtection,   \* the dwtTemplateGuard.enableProtection setting
    cache,              \* ParseCache entry of the document: <<>> or <<[version, result]>>
    lastParseResult,    \* DocumentState.lastParseResult: <<>> (null) or <<result>>
    isReverting,        \* DocumentState.isReverting
    isProgrammaticEdit, \* DocumentState.isProgrammaticEdit
    revertPc,           \* position of revertChange: "idle", "awaitUndo", "undone"
    progPc,             \* position of a programmatic edit: "idle", "begun", "edited"
    judged,             \* record of the last user edit the engine judged: <<>> or <<rec>>
    undoSkipped         \* some blocked edit was not undone: another editor was active

engineVars ==
    <<docText, docVersion, undoStack, redoStack, activeIsDoc, enableProtection, cache,
      lastParseResult, isReverting, isProgrammaticEdit, revertPc, progPc, judged,
      undoSkipped>>

VARIABLES
    rOptions,           \* ResolveOptions of the current resolveTemplate call
    rSteps,             \* <<>> while the call is pending, else <<the text after each step>>
    rFirst,             \* an earlier call kept for comparison: <<>> or <<[options, out]>>
    rBetween,           \* some other call was made after the one kept in rFirst
    lastIndex,          \* lastIndex of each module-level regular expression
    condResult,         \* the last direct evaluateCondition call with its result, or <<>>
    rewriteResult,      \* result of the last direct rewriteRelativePaths call
    loop                \* the loop of a resolveConditionals call: <<>> or <<[text, prev, ...]>>

resolverVars ==
    <<rOptions, rSteps, rFirst, rBetween, lastIndex, condResult, rewriteResult, loop>>

vars == <<parserVars, engineVars, resolverVars>>

\* ------------------------------------------------------------------ bounds
MaxLen == 4

\* ------------------------------------------------------------------ tokens
\* k: the kind; n: the name, path or condition attribute; t: the type
\* attribute; v: the value attribute (all "" where the kind has none).
Tok(k, n, t, v) == [k |-> k, n |-> n, t |-> t, v |-> v]

Mk(k) == Tok(k, "", "", "")

Named(k, n) == Tok(k, n, "", "")

PLAIN == "ch"

Ch == Named(PLAIN, "x")

\* Token kinds and the regular expression each one is a match of.
TEMPLATE_BEGIN_EDITABLE == "TemplateBeginEditable"
TEMPLATE_END_EDITABLE == "TemplateEndEditable"
INSTANCE_BEGIN_EDITABLE == "InstanceBeginEditable"
INSTANCE_END_EDITABLE == "InstanceEndEditable"
INSTANCE_BEGIN == "InstanceBegin"
INSTANCE_PARAM == "InstanceParam"
TEMPLATE_VARIABLE == "TemplateVariable"
TEMPLATE_BEGIN_IF == "TemplateBeginIf"
TEMPLATE_END_IF == "TemplateEndIf"
TEMPLATE_BEGIN_OPTIONAL == "TemplateBeginOptional"
TEMPLATE_END_OPTIONAL == "TemplateEndOptional"
INSTANCE_BEGIN_OPTIONAL == "InstanceBeginOptional"
INSTANCE_END_OPTIONAL == "InstanceEndOptional"
BEGIN_LIBRARY_ITEM == "BeginLibraryItem"
END_LIBRARY_ITEM == "EndLibraryItem"
TEMPLATE_BEGIN_REPEAT == "TemplateBeginRepeat"
TEMPLATE_END_REPEAT == "TemplateEndRepeat"
INSTANCE_BEGIN_REPEAT == "InstanceBeginRepeat"
INSTANCE_END_REPEAT == "InstanceEndRepeat"
INSTANCE_BEGIN_REPEAT_ENTRY == "InstanceBeginRepeatEntry"
INSTANCE_END_REPEAT_ENTRY == "InstanceEndRepeatEntry"

\* A comment that starts like a TemplateBeginEditable marker but carries no
\* name attribute: the file type test matches it, the marker scan does not.
MalformedTemplateBeginEditable == "TemplateBeginEditableNoName"

\* ------------------------------------------------------------------ ranges
Range(s, e) == [start |-> s, end |-> e]

\* rangeUtils: rangeOverlaps, rangeContains
rangeOverlaps(a, b) ==
    IF a.end <= b.start THEN FALSE
    ELSE IF a.start >= b.end THEN FALSE
    ELSE TRUE

rangeContainsLoose(outer, inner) == outer.start <= inner.start

rangeContains(outer, inner) ==
    outer.start <= inner.start /\ outer.end >= inner.end

\* ------------------------------------------------------------------ parser
\* detectFileType: three regular expression tests on the text.
HasKind(text, kinds) == \E i \in 1..Len(text) : text[i].k \in kinds

detectFileTypeNoInstanceEditable(text) ==
    IF HasKind(text, {INSTANCE_BEGIN}) THEN "instance"
    ELSE IF HasKind(text, {TEMPLATE_BEGIN_EDITABLE, MalformedTemplateBeginEditable})
         THEN "template"
    ELSE "none"

detectFileType(text) ==
    IF HasKind(text, {INSTANCE_BEGIN}) \/ HasKind(text, {INSTANCE_BEGIN_EDITABLE})
    THEN "instance"
    ELSE IF HasKind(text, {TEMPLATE_BEGIN_EDITABLE, MalformedTemplateBeginEditable})
         THEN "template"
    ELSE "none"

\* The positions 1..Len(text) in order.
Positions(text) == [i \in 1..Len(text) |-> i]

\* findBeginMarkers: every match of the begin expression, in text order.
findBeginMarkers(regex, text) ==
    LET hits == SelectSeq(Positions(text), LAMBDA i : text[i].k = regex)
    IN  [j \in 1..Len(hits) |->
            [name |-> text[hits[j]].n, start |-> hits[j] - 1, end |-> hits[j]]]

\* findEndMarkers: every match of the end expression, in text order.
findEndMarkers(regex, text) ==
    LET hits == SelectSeq(Positions(text), LAMBDA i : text[i].k = regex)
    IN  [j \in 1..Len(hits) |-> [start |-> hits[j] - 1, end |-> hits[j]]]

\* The inner while loop of every pairing loop: advance endIdx past the end
\* markers that start before (orEqual: at or before) the begin marker's end.
RECURSIVE SkipEnds(_, _, _, _)
SkipEnds(ends, endIdx, beginEnd, orEqual) ==
    IF endIdx <= Len(ends)
       /\ (IF orEqual THEN ends[endIdx].start <= beginEnd
                      ELSE ends[endIdx].start < beginEnd)
    THEN SkipEnds(ends, endIdx + 1, beginEnd, orEqual)
    ELSE endIdx

\* The pairing loop shared by all marker families: the sequence of
\* (begin, end) pairs, begins[bi..] against ends[endIdx..].
RECURSIVE PairMarkers(_, _, _, _, _)
PairMarkers(begins, ends, bi, endIdx, orEqual) ==
    IF bi > Len(begins) THEN <<>>
    ELSE LET begin == begins[bi]
             at == SkipEnds(ends, endIdx, begin.end, orEqual)
         IN  IF at > Len(ends) THEN <<>>
             ELSE <<[begin |-> begin, end |-> ends[at]]>>
                  \o PairMarkers(begins, ends, bi + 1, at + 1, orEqual)

\* The region record built from one pair, shifted by offset.
RegionOf(p, offset) ==
    [name |-> p.begin.name,
     beginMarkerRange |-> Range(offset + p.begin.start, offset + p.begin.end),
     endMarkerRange |-> Range(offset + p.end.start, offset + p.end.end),
     contentRange |-> Range(offset + p.begin.end, offset + p.end.start),
     fullRange |-> Range(offset + p.begin.start, offset + p.end.end)]

parseEditableRegions(text, beginRegex, endRegex) ==
    LET begins == findBeginMarkers(beginRegex, text)
        ends == findEndMarkers(endRegex, text)
        pairs == PairMarkers(begins, ends, 1, 1, FALSE)
    IN  [j \in 1..Len(pairs) |-> RegionOf(pairs[j], 0)]

\* The comparator sort of computeProtectedRegions (stable insertion sort by
\* contentRange.start).
RECURSIVE InsertByStart(_, _)
InsertByStart(sorted, r) ==
    IF sorted = <<>> THEN <<r>>
    ELSE IF r.contentRange.start < Head(sorted).contentRange.start
         THEN <<r>> \o sorted
         ELSE <<Head(sorted)>> \o InsertByStart(Tail(sorted), r)

RECURSIVE SortByStart(_)
SortByStart(regions) ==
    IF regions = <<>> THEN <<>>
    ELSE InsertByStart(SortByStart(SubSeq(regions, 1, Len(regions) - 1)),
                       regions[Len(regions)])

\* The gaps between consecutive sorted regions, from index i on.
RECURSIVE GapsBetween(_, _)
GapsBetween(sorted, i) ==
    IF i >= Len(sorted) THEN <<>>
    ELSE LET gapStart == sorted[i].contentRange.end
             gapEnd == sorted[i + 1].contentRange.start
         IN  (IF gapEnd > gapStart THEN <<[range |-> Range(gapStart, gapEnd)]>>
              ELSE <<>>)
             \o GapsBetween(sorted, i + 1)

computeProtectedRegionsNoTrailingGap(docLen, editableRegions) ==
    IF Len(editableRegions) = 0 THEN <<[range |-> Range(0, docLen)]>>
    ELSE LET sorted == SortByStart(editableRegions)
             first == sorted[1].contentRange.start
         IN  (IF first > 0 THEN <<[range |-> Range(0, first)]>> ELSE <<>>)
             \o GapsBetween(sorted, 1)

computeProtectedRegionsNoneWhenEmpty(docLen, editableRegions) ==
    IF Len(editableRegions) = 0 THEN <<>>
    ELSE LET sorted == SortByStart(editableRegions)
             first == sorted[1].contentRange.start
             lastEnd == sorted[Len(sorted)].contentRange.end
         IN  (IF first > 0 THEN <<[range |-> Range(0, first)]>> ELSE <<>>)
             \o GapsBetween(sorted, 1)
             \o (IF docLen > lastEnd THEN <<[range |-> Range(lastEnd, docLen)]>>
                 ELSE <<>>)

computeProtectedRegions(docLen, editableRegions) ==
    IF Len(editableRegions) = 0 THEN <<[range |-> Range(0, docLen)]>>
    ELSE LET sorted == SortByStart(editableRegions)
             first == sorted[1].contentRange.start
             lastEnd == sorted[Len(sorted)].contentRange.end
         IN  (IF first > 0 THEN <<[range |-> Range(0, first)]>> ELSE <<>>)
             \o GapsBetween(sorted, 1)
             \o (IF docLen > lastEnd THEN <<[range |-> Range(lastEnd, docLen)]>>
                 ELSE <<>>)

\* parseInstanceParams.  The value sub-span lies inside one token and has no
\* offsets of its own at this granularity; range is the marker's span.
parseInstanceParams(text) ==
    LET hits == SelectSeq(Positions(text), LAMBDA i : text[i].k = INSTANCE_PARAM)
    IN  [j \in 1..Len(hits) |->
            [name |-> text[hits[j]].n, type |-> text[hits[j]].t,
             value |-> text[hits[j]].v, range |-> Range(hits[j] - 1, hits[j])]]

\* parseTemplateDeclaration: the first InstanceBegin match, or null (<<>>).
parseTemplateDeclaration(text) ==
    LET hits == SelectSeq(Positions(text), LAMBDA i : text[i].k = INSTANCE_BEGIN)
    IN  IF hits = <<>> THEN <<>>
        ELSE <<[templatePath |-> text[hits[1]].n,
                codeOutsideHTMLIsLocked |-> text[hits[1]].v # "false",
                range |-> Range(hits[1] - 1, hits[1])]>>

parseTemplateVariables(text) ==
    LET hits == SelectSeq(Positions(text), LAMBDA i : text[i].k = TEMPLATE_VARIABLE)
    IN  [j \in 1..Len(hits) |->
            [name |-> text[hits[j]].n, range |-> Range(hits[j] - 1, hits[j])]]

parseConditionalRegions(text) ==
    LET begins == findBeginMarkers(TEMPLATE_BEGIN_IF, text)
        ends == findEndMarkers(TEMPLATE_END_IF, text)
        pairs == PairMarkers(begins, ends, 1, 1, FALSE)
    IN  [j \in 1..Len(pairs) |->
            [condition |-> pairs[j].begin.name,
             contentRange |-> Range(pairs[j].begin.end, pairs[j].end.start),
             fullRange |-> Range(pairs[j].begin.start, pairs[j].end.end)]]

parseOptionalRegions(text, fileType) ==
    LET beginRe == IF fileType = "instance" THEN INSTANCE_BEGIN_OPTIONAL
                   ELSE TEMPLATE_BEGIN_OPTIONAL
        endRe == IF fileType = "instance" THEN INSTANCE_END_OPTIONAL
                 ELSE TEMPLATE_END_OPTIONAL
        begins == findBeginMarkers(beginRe, text)
        ends == findEndMarkers(endRe, text)
        pairs == PairMarkers(begins, ends, 1, 1, FALSE)
    IN  [j \in 1..Len(pairs) |->
            [name |-> pairs[j].begin.name,
             contentRange |-> Range(pairs[j].begin.end, pairs[j].end.start),
             fullRange |-> Range(pairs[j].begin.start, pairs[j].end.end)]]

\* text.slice(from, to) in offsets.
Slice(text, from, to) == SubSeq(text, from + 1, to)

\* One repeat entry: its editable regions are paired inside the entry's
\* content slice and translated back to document offsets.
RepeatEntryOf(text, p, regionOffset) ==
    LET ebStart == regionOffset + p.begin.start
        ebEnd == regionOffset + p.begin.end
        eeStart == regionOffset + p.end.start
        eeEnd == regionOffset + p.end.end
        entryContent == Slice(text, ebEnd, eeStart)
        beginMatches == findBeginMarkers(INSTANCE_BEGIN_EDITABLE, entryContent)
        endMatches == findEndMarkers(INSTANCE_END_EDITABLE, entryContent)
        pairs == PairMarkers(beginMatches, endMatches, 1, 1, FALSE)
    IN  [editableRegions |-> [j \in 1..Len(pairs) |-> RegionOf(pairs[j], ebEnd)],
         contentRange |-> Range(ebEnd, eeStart),
         fullRange |-> Range(ebStart, eeEnd)]

parseRepeatRegions(text, fileType) ==
    IF fileType = "template"
    THEN LET begins == findBeginMarkers(TEMPLATE_BEGIN_REPEAT, text)
             ends == findEndMarkers(TEMPLATE_END_REPEAT, text)
             pairs == PairMarkers(begins, ends, 1, 1, TRUE)
         IN  [j \in 1..Len(pairs) |->
                [name |-> pairs[j].begin.name,
                 entries |-> <<>>,
                 beginMarkerRange |-> Range(pairs[j].begin.start, pairs[j].begin.end),
                 endMarkerRange |-> Range(pairs[j].end.start, pairs[j].end.end),
                 fullRange |-> Range(pairs[j].begin.start, pairs[j].end.end)]]
    ELSE LET outerBegins == findBeginMarkers(INSTANCE_BEGIN_REPEAT, text)
             outerEnds == findEndMarkers(INSTANCE_END_REPEAT, text)
             outer == PairMarkers(outerBegins, outerEnds, 1, 1, TRUE)
             EntriesOf(ob, oe) ==
                LET regionText == Slice(text, ob.end, oe.start)
                    entryBegins == findBeginMarkers(INSTANCE_BEGIN_REPEAT_ENTRY, regionText)
                    entryEnds == findEndMarkers(INSTANCE_END_REPEAT_ENTRY, regionText)
                    pairs == PairMarkers(entryBegins, entryEnds, 1, 1, TRUE)
                IN  [j \in 1..Len(pairs) |-> RepeatEntryOf(text, pairs[j], ob.end)]
         IN  [j \in 1..Len(outer) |->
                [name |-> outer[j].begin.name,
                 entries |-> EntriesOf(outer[j].begin, outer[j].end),
                 beginMarkerRange |-> Range(outer[j].begin.start, outer[j].begin.end),
                 endMarkerRange |-> Range(outer[j].end.start, outer[j].end.end),
                 fullRange |-> Range(outer[j].begin.start, outer[j].end.end)]]

parseLibraryItems(text) ==
    LET begins == findBeginMarkers(BEGIN_LIBRARY_ITEM, text)
        ends == findEndMarkers(END_LIBRARY_ITEM, text)
        pairs == PairMarkers(begins, ends, 1, 1, TRUE)
    IN  [j \in 1..Len(pairs) |->
            [path |-> pairs[j].begin.name,
             beginMarkerRange |-> Range(pairs[j].begin.start, pairs[j].begin.end),
             endMarkerRange |-> Range(pairs[j].end.start, pairs[j].end.end),
             contentRange |-> Range(pairs[j].begin.end, pairs[j].end.start),
             fullRange |-> Range(pairs[j].begin.start, pairs[j].end.end)]]

\* The result parseDocument returns for a document of type none.
EmptyParseResult ==
    [fileType |-> "none", templateDeclaration |-> <<>>, editableRegions |-> <<>>,
     protectedRegions |-> <<>>, instanceParams |-> <<>>, templateVariables |-> <<>>,
     conditionalRegions |-> <<>>, optionalRegions |-> <<>>, libraryItems |-> <<>>,
     repeatRegions |-> <<>>]

parseDocumentWith(text, fileType) ==
    IF fileType = "none" THEN EmptyParseResult
    ELSE LET editableRegions ==
                IF fileType = "template"
                THEN parseEditableRegions(text, TEMPLATE_BEGIN_EDITABLE, TEMPLATE_END_EDITABLE)
                ELSE parseEditableRegions(text, INSTANCE_BEGIN_EDITABLE, INSTANCE_END_EDITABLE)
             libraryItems == parseLibraryItems(text)
         IN  [fileType |-> fileType,
              templateDeclaration |->
                 IF fileType = "instance" THEN parseTemplateDeclaration(text) ELSE <<>>,
              editableRegions |-> editableRegions,
              protectedRegions |->
                 computeProtectedRegions(Len(text), editableRegions)
                 \o [j \in 1..Len(libraryItems) |-> [range |-> libraryItems[j].contentRange]],
              instanceParams |->
                 IF fileType = "instance" THEN parseInstanceParams(text) ELSE <<>>,
              templateVariables |-> parseTemplateVariables(text),
              conditionalRegions |-> parseConditionalRegions(text),
              optionalRegions |-> parseOptionalRegions(text, fileType),
              libraryItems |-> libraryItems,
              repeatRegions |-> parseRepeatRegions(text, fileType)]

parseDocument(text) == parseDocumentWith(text, detectFileType(text))

\* ---------------------------------------------------------------- resolver
\* Further token kinds of the resolver's regular expressions and of
\* insertInstanceMarkers.
TEMPLATE_PARAM_RE == "TemplateParam"
INSTANCE_END == "InstanceEnd"
HTML_OPEN == "HtmlOpenTag"
HEAD_CLOSE == "HeadCloseTag"
HTML_CLOSE == "HtmlCloseTag"
ATTR_URL_RE == "AttrUrl"

\* Plain whitespace characters.
Space == Named(PLAIN, " ")
Newline == Named(PLAIN, "\n")
Tab == Named(PLAIN, "\t")

IsSpaceOrTab(tok) == tok = Space \/ tok = Tab
IsWhitespace(tok) == tok = Space \/ tok = Tab \/ tok = Newline

\* Map<string, V> keeps insertion order: a sequence of entries with distinct
\* keys.
MapHas(map, key) == \E i \in 1..Len(map) : map[i].key = key

MapGet(map, key) == map[CHOOSE i \in 1..Len(map) : map[i].key = key].val

MapSet(map, key, val) ==
    IF MapHas(map, key)
    THEN [i \in 1..Len(map) |-> IF map[i].key = key THEN [key |-> key, val |-> val]
                                 ELSE map[i]]
    ELSE Append(map, [key |-> key, val |-> val])

\* params.get(name) ?? ''
GetOrEmpty(map, key) == IF MapHas(map, key) THEN MapGet(map, key) ELSE ""

RECURSIVE MapSetAll(_, _)
MapSetAll(map, entries) ==
    IF entries = <<>> THEN map
    ELSE MapSetAll(MapSet(map, entries[1].key, entries[1].val), Tail(entries))

MinOf(S) == CHOOSE x \in S : \A y \in S : x <= y

\* The matches of a global expression begin ([\s\S]*?) end in text, from
\* position pos on: each begin token that has an end token after it, with
\* the first such end token; the scan resumes after the match.
RECURSIVE FindBlocks(_, _, _, _)
FindBlocks(text, pos, beginKind, endKind) ==
    LET starts == {i \in pos..Len(text) :
                     text[i].k = beginKind
                     /\ \E j \in (i + 1)..Len(text) : text[j].k = endKind}
    IN  IF starts = {} THEN <<>>
        ELSE LET i == MinOf(starts)
                 j == MinOf({x \in (i + 1)..Len(text) : text[x].k = endKind})
             IN  <<[from |-> i, to |-> j]>> \o FindBlocks(text, j + 1, beginKind, endKind)

\* String.prototype.replace: the text with every match replaced.
RECURSIVE ReplaceMatches(_, _, _, _)
ReplaceMatches(text, pos, blocks, replacements) ==
    IF blocks = <<>> THEN SubSeq(text, pos, Len(text))
    ELSE SubSeq(text, pos, blocks[1].from - 1) \o replacements[1]
         \o ReplaceMatches(text, blocks[1].to + 1, Tail(blocks), Tail(replacements))

BlockName(text, b) == text[b.from].n
BlockContent(text, b) == SubSeq(text, b.from + 1, b.to - 1)

\* parseTemplateParams
parseTemplateParams(text) ==
    LET hits == SelectSeq(Positions(text), LAMBDA i : text[i].k = TEMPLATE_PARAM_RE)
    IN  [j \in 1..Len(hits) |->
            [name |-> text[hits[j]].n, type |-> text[hits[j]].t, value |-> text[hits[j]].v]]

\* The text of a condition is a sequence of lexical pieces: a word (a
\* maximal run of \w characters), an accessor _document['s'], an operator
\* == or !=, a single-quoted or double-quoted string without its own quote
\* character inside, a run of white space, or any other characters.
Word(s) == [a |-> "word", s |-> s]
Doc(s) == [a |-> "doc", s |-> s]
Op(s) == [a |-> "op", s |-> s]
Sq(s) == [a |-> "sq", s |-> s]
Dq(s) == [a |-> "dq", s |-> s]
Ws == [a |-> "ws", s |-> " "]
Other(s) == [a |-> "other", s |-> s]

\* The pieces of the condition attributes the markers here carry.
ConditionText(condition) ==
    CASE condition = "P" -> <<Word("P")>>
      [] condition = "Q" -> <<Word("Q")>>
      [] condition = "P=='v'" -> <<Word("P"), Op("=="), Sq("v")>>
      [] condition = "P!='v'" -> <<Word("P"), Op("!="), Sq("v")>>
      [] condition = "_document['P']=='v'" -> <<Doc("P"), Op("=="), Sq("v")>>
      [] condition = "_document['P']" -> <<Doc("P")>>
      [] condition = "P && Q" -> <<Word("P"), Ws, Other("&&"), Ws, Word("Q")>>
      [] condition = "P=='v' || Q" ->
            <<Word("P"), Op("=="), Sq("v"), Ws, Other("||"), Ws, Word("Q")>>
      [] OTHER -> <<Other(condition)>>

\* String.prototype.trim
TrimTo(text, solid) ==
    IF solid = {} THEN <<>>
    ELSE SubSeq(text, CHOOSE i \in solid : \A j \in solid : i <= j,
                      CHOOSE i \in solid : \A j \in solid : i >= j)

Trim(text) == TrimTo(text, {i \in 1..Len(text) : text[i].a # "ws"})

\* \s* from position i: the first position at or after i that holds no
\* white space (Len + 1 for none).
SkipWs(text, i) ==
    CHOOSE j \in i..(Len(text) + 1) :
        /\ \A x \in i..(j - 1) : text[x].a = "ws"
        /\ j <= Len(text) => text[j].a # "ws"

\* ^(?:_document\['([^']+)'\]|(\w+))\s*(==|!=)\s*'([^']*)' and its
\* double-quoted twin: the groups of a match at the start (no anchor at
\* the end), <<>> for no match.
ComparisonAt(trimmed, quote, i, j) ==
    IF /\ trimmed # <<>> /\ trimmed[1].a \in {"doc", "word"}
       /\ i <= Len(trimmed) /\ trimmed[i].a = "op"
       /\ j <= Len(trimmed) /\ trimmed[j].a = quote
    THEN <<[name |-> trimmed[1].s, op |-> trimmed[i].s, value |-> trimmed[j].s]>>
    ELSE <<>>

OperatorAt(trimmed, quote, i) == ComparisonAt(trimmed, quote, i, SkipWs(trimmed, i + 1))

MatchComparison(trimmed, quote) == OperatorAt(trimmed, quote, SkipWs(trimmed, 2))

\* The groups the regular expressions of evaluateCondition capture, tried
\* in the order of the code (form "none": no expression matches).
GroupsOf(trimmed, eqMatch, eqMatchDbl) ==
    IF eqMatch # <<>>
        THEN [form |-> "eq", name |-> eqMatch[1].name, op |-> eqMatch[1].op,
              value |-> eqMatch[1].value]
        ELSE IF eqMatchDbl # <<>>
        THEN [form |-> "eqDbl", name |-> eqMatchDbl[1].name, op |-> eqMatchDbl[1].op,
              value |-> eqMatchDbl[1].value]
        ELSE IF Len(trimmed) = 1 /\ trimmed[1].a = "doc"
        THEN [form |-> "bool", name |-> trimmed[1].s, op |-> "", value |-> ""]
        ELSE IF Len(trimmed) = 1 /\ trimmed[1].a = "word"
        THEN [form |-> "bare", name |-> trimmed[1].s, op |-> "", value |-> ""]
        ELSE [form |-> "none", name |-> "", op |-> "", value |-> ""]

ConditionGroups(trimmed) ==
    GroupsOf(trimmed, MatchComparison(trimmed, "sq"), MatchComparison(trimmed, "dq"))

\* evaluateCondition, on the text of the condition.
EvaluateGroups(g, actual) ==
    IF g.form \in {"eq", "eqDbl"}
    THEN (IF g.op = "==" THEN actual = g.value ELSE actual # g.value)
    ELSE IF g.form \in {"bool", "bare"} THEN actual = "true"
    ELSE TRUE

ActualOf(g, params) == EvaluateGroups(g, GetOrEmpty(params, g.name))

evaluateConditionAlwaysTrue(condition, params) == TRUE

evaluateCondition(condition, params) == ActualOf(ConditionGroups(Trim(condition)), params)

\* resolveOptionalRegions
resolveOptionalRegionsHiddenWhenUnset(text, params) ==
    LET blocks == FindBlocks(text, 1, TEMPLATE_BEGIN_OPTIONAL, TEMPLATE_END_OPTIONAL)
        Replacement(b) ==
            LET name == BlockName(text, b)
                isVisible == MapHas(params, name) /\ MapGet(params, name) = "true"
            IN  IF ~isVisible THEN <<>>
                ELSE <<Named(INSTANCE_BEGIN_OPTIONAL, name)>> \o BlockContent(text, b)
                     \o <<Mk(INSTANCE_END_OPTIONAL)>>
    IN  ReplaceMatches(text, 1, blocks, [j \in 1..Len(blocks) |-> Replacement(blocks[j])])

resolveOptionalRegions(text, params) ==
    LET blocks == FindBlocks(text, 1, TEMPLATE_BEGIN_OPTIONAL, TEMPLATE_END_OPTIONAL)
        Replacement(b) ==
            LET name == BlockName(text, b)
                isVisible == IF ~MapHas(params, name) THEN TRUE
                             ELSE MapGet(params, name) = "true"
            IN  IF ~isVisible THEN <<>>
                ELSE <<Named(INSTANCE_BEGIN_OPTIONAL, name)>> \o BlockContent(text, b)
                     \o <<Mk(INSTANCE_END_OPTIONAL)>>
    IN  ReplaceMatches(text, 1, blocks, [j \in 1..Len(blocks) |-> Replacement(blocks[j])])

\* The two halves of a TemplateBeginIf marker written before and after a
\* block: plain text while the block stands between them.
BeginIfHead == Named(PLAIN, "<!-- Templ")
BeginIfTail == Named(PLAIN, "ateBeginIf cond=\"P\" -->")

\* The result of String.replace is one string: where the text before and
\* the text after a replaced block spell a marker together, the next scan
\* reads it as that marker.
RECURSIVE JoinMarkers(_, _)
JoinMarkers(text, i) ==
    IF i > Len(text) THEN <<>>
    ELSE IF i < Len(text) /\ text[i] = BeginIfHead /\ text[i + 1] = BeginIfTail
    THEN <<Named(TEMPLATE_BEGIN_IF, "P")>> \o JoinMarkers(text, i + 2)
    ELSE <<text[i]>> \o JoinMarkers(text, i + 1)

\* One pass of the loop of resolveConditionals: text.replace.
ConditionalPassKeepMarkers(text, params) ==
    LET blocks == FindBlocks(text, 1, TEMPLATE_BEGIN_IF, TEMPLATE_END_IF)
        Replacement(b) ==
            IF evaluateCondition(ConditionText(BlockName(text, b)), params)
            THEN SubSeq(text, b.from, b.to)
            ELSE <<>>
    IN  JoinMarkers(ReplaceMatches(text, 1, blocks,
                                   [j \in 1..Len(blocks) |-> Replacement(blocks[j])]), 1)

ConditionalPass(text, params) ==
    LET blocks == FindBlocks(text, 1, TEMPLATE_BEGIN_IF, TEMPLATE_END_IF)
        Replacement(b) ==
            IF evaluateCondition(ConditionText(BlockName(text, b)), params)
            THEN BlockContent(text, b)
            ELSE <<>>
    IN  JoinMarkers(ReplaceMatches(text, 1, blocks,
                                   [j \in 1..Len(blocks) |-> Replacement(blocks[j])]), 1)

\* resolveConditionals: iterate until stable.
RECURSIVE resolveConditionals(_, _)
resolveConditionals(text, params) ==
    LET next == ConditionalPass(text, params)
    IN  IF next = text THEN text ELSE resolveConditionals(next, params)

\* The parameter an @@(...)@@ expression names: the bracket form
\* _document['Name'] or the trimmed expression itself.
VariableName(expr) ==
    CASE expr = "_document['P']" -> "P"
      [] expr = "_document['Q']" -> "Q"
      [] OTHER -> expr

\* The text a parameter value spells: nothing for the empty string, a
\* placeholder for a value that is written as one, plain text otherwise.
ValueText(value) ==
    CASE value = "" -> <<>>
      [] value = "@@(P)@@" -> <<Named(TEMPLATE_VARIABLE, "P")>>
      [] value = "@@(Q)@@" -> <<Named(TEMPLATE_VARIABLE, "Q")>>
      [] OTHER -> <<Named(PLAIN, value)>>

\* An attribute URL is the token's name field: a record of its form, the
\* number of leading "../", its path segments, its ?query / #fragment suffix
\* and the placeholder it starts with ("" for none).
Url(form, ups, segs, sfx, var) ==
    [form |-> form, ups |-> ups, segs |-> segs, sfx |-> sfx, var |-> var]

AttrUrl(url) == Named(ATTR_URL_RE, url)

\* A URL "@@(Name)@@/segs" after the placeholder is replaced by value.
SubstituteUrl(url, params) ==
    IF url.var = "" THEN url
    ELSE LET value == GetOrEmpty(params, VariableName(url.var))
         IN  IF value = "" THEN Url("root", 0, url.segs, url.sfx, "")
             ELSE IF value = "@@(P)@@" THEN Url(url.form, url.ups, url.segs, url.sfx, "P")
             ELSE IF value = "@@(Q)@@" THEN Url(url.form, url.ups, url.segs, url.sfx, "Q")
             ELSE Url("relative", 0, <<value>> \o url.segs, url.sfx, "")

\* resolveVariables: every @@(...)@@ in the text, also inside an attribute
\* URL, is replaced by the parameter's value or by the empty string.
resolveVariablesTwice(text, params) ==
    LET Replacement(tok) ==
            IF tok.k = TEMPLATE_VARIABLE
            THEN ValueText(GetOrEmpty(params, VariableName(tok.n)))
            ELSE IF tok.k = ATTR_URL_RE THEN <<AttrUrl(SubstituteUrl(tok.n, params))>>
            ELSE <<tok>>
        RECURSIVE Walk(_, _)
        Walk(t, i) == IF i > Len(t) THEN <<>> ELSE Replacement(t[i]) \o Walk(t, i + 1)
    IN  Walk(Walk(text, 1), 1)

resolveVariables(text, params) ==
    LET Replacement(tok) ==
            IF tok.k = TEMPLATE_VARIABLE
            THEN ValueText(GetOrEmpty(params, VariableName(tok.n)))
            ELSE IF tok.k = ATTR_URL_RE THEN <<AttrUrl(SubstituteUrl(tok.n, params))>>
            ELSE <<tok>>
        RECURSIVE Walk(_)
        Walk(i) == IF i > Len(text) THEN <<>> ELSE Replacement(text[i]) \o Walk(i + 1)
    IN  Walk(1)

\* resolveEditableRegions
resolveEditableRegionsKeepDefault(text, editableContents) ==
    LET blocks == FindBlocks(text, 1, TEMPLATE_BEGIN_EDITABLE, TEMPLATE_END_EDITABLE)
        Replacement(b) ==
            <<Named(INSTANCE_BEGIN_EDITABLE, BlockName(text, b))>> \o BlockContent(text, b)
            \o <<Mk(INSTANCE_END_EDITABLE)>>
    IN  ReplaceMatches(text, 1, blocks, [j \in 1..Len(blocks) |-> Replacement(blocks[j])])

resolveEditableRegions(text, editableContents) ==
    LET blocks == FindBlocks(text, 1, TEMPLATE_BEGIN_EDITABLE, TEMPLATE_END_EDITABLE)
        Replacement(b) ==
            LET name == BlockName(text, b)
                content == IF MapHas(editableContents, name)
                           THEN MapGet(editableContents, name)
                           ELSE BlockContent(text, b)
            IN  <<Named(INSTANCE_BEGIN_EDITABLE, name)>> \o content
                \o <<Mk(INSTANCE_END_EDITABLE)>>
    IN  ReplaceMatches(text, 1, blocks, [j \in 1..Len(blocks) |-> Replacement(blocks[j])])

\* resolveRepeatRegions
resolveRepeatRegionsSharedContents(text, repeatEntries) ==
    LET blocks == FindBlocks(text, 1, TEMPLATE_BEGIN_REPEAT, TEMPLATE_END_REPEAT)
        Replacement(b) ==
            LET name == BlockName(text, b)
                templateBlock == BlockContent(text, b)
                entryList == IF MapHas(repeatEntries, name)
                                /\ Len(MapGet(repeatEntries, name)) > 0
                             THEN MapGet(repeatEntries, name)
                             ELSE << <<>> >>
                EntryBlock(entryContents) ==
                    <<Mk(INSTANCE_BEGIN_REPEAT_ENTRY)>>
                    \o resolveEditableRegions(templateBlock, entryContents)
                    \o <<Mk(INSTANCE_END_REPEAT_ENTRY)>>
                RECURSIVE Join(_)
                Join(i) == IF i > Len(entryList) THEN <<>>
                           ELSE EntryBlock(entryList[1]) \o Join(i + 1)
            IN  <<Named(INSTANCE_BEGIN_REPEAT, name)>> \o Join(1)
                \o <<Mk(INSTANCE_END_REPEAT)>>
    IN  ReplaceMatches(text, 1, blocks, [j \in 1..Len(blocks) |-> Replacement(blocks[j])])

resolveRepeatRegions(text, repeatEntries) ==
    LET blocks == FindBlocks(text, 1, TEMPLATE_BEGIN_REPEAT, TEMPLATE_END_REPEAT)
        Replacement(b) ==
            LET name == BlockName(text, b)
                templateBlock == BlockContent(text, b)
                entryList == IF MapHas(repeatEntries, name)
                                /\ Len(MapGet(repeatEntries, name)) > 0
                             THEN MapGet(repeatEntries, name)
                             ELSE << <<>> >>
                EntryBlock(entryContents) ==
                    <<Mk(INSTANCE_BEGIN_REPEAT_ENTRY)>>
                    \o resolveEditableRegions(templateBlock, entryContents)
                    \o <<Mk(INSTANCE_END_REPEAT_ENTRY)>>
                RECURSIVE Join(_)
                Join(i) == IF i > Len(entryList) THEN <<>>
                           ELSE EntryBlock(entryList[i]) \o Join(i + 1)
            IN  <<Named(INSTANCE_BEGIN_REPEAT, name)>> \o Join(1)
                \o <<Mk(INSTANCE_END_REPEAT)>>
    IN  ReplaceMatches(text, 1, blocks, [j \in 1..Len(blocks) |-> Replacement(blocks[j])])

\* syncInstanceParams
syncInstanceParams(text, params, paramTypes) ==
    [i \in 1..Len(text) |->
        IF text[i].k = INSTANCE_PARAM
        THEN LET name == text[i].n
                 value == IF MapHas(params, name) THEN MapGet(params, name) ELSE ""
                 resolvedType == IF GetOrEmpty(paramTypes, name) # ""
                                 THEN MapGet(paramTypes, name) ELSE text[i].t
             IN  Tok(INSTANCE_PARAM, name, resolvedType, value)
        ELSE text[i]]

\* resolveNestedEditableRegions
resolveNestedEditableRegionsKeepExisting(text, editableContents) ==
    LET blocks == FindBlocks(text, 1, INSTANCE_BEGIN_EDITABLE, INSTANCE_END_EDITABLE)
        Replacement(b) ==
            <<Named(INSTANCE_BEGIN_EDITABLE, BlockName(text, b))>> \o BlockContent(text, b)
            \o <<Mk(INSTANCE_END_EDITABLE)>>
    IN  ReplaceMatches(text, 1, blocks, [j \in 1..Len(blocks) |-> Replacement(blocks[j])])

resolveNestedEditableRegions(text, editableContents) ==
    LET blocks == FindBlocks(text, 1, INSTANCE_BEGIN_EDITABLE, INSTANCE_END_EDITABLE)
        Replacement(b) ==
            LET name == BlockName(text, b)
                content == IF MapHas(editableContents, name)
                           THEN MapGet(editableContents, name)
                           ELSE BlockContent(text, b)
            IN  <<Named(INSTANCE_BEGIN_EDITABLE, name)>> \o content
                \o <<Mk(INSTANCE_END_EDITABLE)>>
    IN  ReplaceMatches(text, 1, blocks, [j \in 1..Len(blocks) |-> Replacement(blocks[j])])

\* The first of the matching positions, 0 for none.
FirstIndex(hits) == IF hits = {} THEN 0 ELSE MinOf(hits)

InsertAfter(text, i, ins) == SubSeq(text, 1, i) \o ins \o SubSeq(text, i + 1, Len(text))

\* insertInstanceMarkers. The expressions for the opening html tag and the
\* closing head tag have the i flag and match a tag in any letter case; the
\* expression for the closing html tag has none and matches the lower-case
\* spelling only.
insertInstanceMarkers(text, templatePath, codeOutsideHTMLIsLocked, params, paramTypes) ==
    LET lockedStr == IF codeOutsideHTMLIsLocked THEN "true" ELSE "false"
        htmlAt == FirstIndex({i \in 1..Len(text) : text[i].k = HTML_OPEN})
        text1 == IF htmlAt = 0 THEN text
                 ELSE InsertAfter(text, htmlAt,
                                  <<Tok(INSTANCE_BEGIN, templatePath, "", lockedStr)>>)
        ParamLine(e) ==
            <<Tab, Tok(INSTANCE_PARAM, e.key,
                       IF GetOrEmpty(paramTypes, e.key) # "" THEN MapGet(paramTypes, e.key)
                       ELSE "text",
                       e.val)>>
        RECURSIVE JoinLines(_)
        JoinLines(i) ==
            IF i > Len(params) THEN <<>>
            ELSE ParamLine(params[i])
                 \o (IF i < Len(params) THEN <<Newline>> ELSE <<>>) \o JoinLines(i + 1)
        paramLines == JoinLines(1)
        headAt == FirstIndex({i \in 1..Len(text1) : text1[i].k = HEAD_CLOSE})
        text2 == IF headAt = 0 THEN text1
                 ELSE InsertAfter(text1, headAt - 1, paramLines \o <<Newline>>)
        endAt == FirstIndex({i \in 1..Len(text2) :
                     /\ text2[i] = Mk(HTML_CLOSE)
                     /\ \A j \in (i + 1)..Len(text2) : IsWhitespace(text2[j])})
    IN  IF endAt = 0 THEN text2
        ELSE SubSeq(text2, 1, endAt - 1) \o <<Mk(INSTANCE_END), Mk(HTML_CLOSE), Newline>>

\* path.posix.dirname of the site-relative paths used here, as the
\* sequence of directory names below the site root.
Dirname(p) ==
    CASE p = "/index.html" -> <<>>
      [] p = "/Templates/T.dwt" -> <<"Templates">>
      [] p = "/Templates/p.html" -> <<"Templates">>
      [] p = "/a/p.html" -> <<"a">>
      [] p = "/a/b/p.html" -> <<"a", "b">>
      [] p = "/a/b/T.dwt" -> <<"a", "b">>
      [] OTHER -> <<>>

\* path.posix.resolve(templateDir, urlPath)
PathResolve(dir, ups, segs) ==
    LET kept == IF ups >= Len(dir) THEN 0 ELSE Len(dir) - ups
    IN  SubSeq(dir, 1, kept) \o segs

\* path.posix.relative(instanceDir, absolute)
PathRelative(from, to) ==
    LET Common(c) == c <= Len(from) /\ c <= Len(to)
                     /\ \A i \in 1..c : from[i] = to[i]
        c == CHOOSE n \in 0..Len(from) : Common(n) /\ ~Common(n + 1)
    IN  [ups |-> Len(from) - c, segs |-> SubSeq(to, c + 1, Len(to))]

\* The form of the text rewritten + urlSuffix.
RewrittenUrl(rel, sfx) ==
    IF rel.ups = 0 /\ rel.segs = <<>>
    THEN Url(CASE sfx = "" -> "empty" [] sfx = "#f" -> "fragment" [] OTHER -> "query",
             0, <<>>, sfx, "")
    ELSE Url("relative", rel.ups, rel.segs, sfx, "")

\* rewriteRelativePaths
rewriteRelativePathsIdentity(text, templatePath, instancePath) == text

rewriteRelativePaths(text, templatePath, instancePath) ==
    LET templateDir == Dirname(templatePath)
        instanceDir == Dirname(instancePath)
    IN  IF templateDir = instanceDir THEN text
        ELSE [i \in 1..Len(text) |->
                IF text[i].k = ATTR_URL_RE /\ text[i].n.form = "relative"
                   /\ text[i].n.var = ""
                THEN AttrUrl(RewrittenUrl(
                        PathRelative(instanceDir,
                                     PathResolve(templateDir, text[i].n.ups, text[i].n.segs)),
                        text[i].n.sfx))
                ELSE text[i]]

\* RegExp.prototype.test: a global expression searches from lastIndex and
\* leaves lastIndex after the match (0 on failure); an expression without
\* the g flag searches from the start and leaves lastIndex alone.
RegexTest(flags, from, text, kind) ==
    IF flags = "g"
    THEN LET hits == {i \in (from + 1)..Len(text) : text[i].k = kind}
         IN  IF hits = {} THEN [matched |-> FALSE, lastIndex |-> 0]
             ELSE [matched |-> TRUE, lastIndex |-> MinOf(hits)]
    ELSE [matched |-> \E i \in 1..Len(text) : text[i].k = kind, lastIndex |-> from]

\* The flags of INSTANCE_BEGIN_RE.
INSTANCE_BEGIN_RE_FLAGS_GLOBAL == "g"

INSTANCE_BEGIN_RE_FLAGS == ""

\* Step 2 of resolveTemplate: every TemplateParam declaration goes, with
\* the spaces and tabs right before it and one newline right after it.
StripTemplateParams(text) ==
    LET BeforeParam(i) ==
            /\ IsSpaceOrTab(text[i])
            /\ \E j \in (i + 1)..Len(text) :
                  /\ text[j].k = TEMPLATE_PARAM_RE
                  /\ \A x \in i..(j - 1) : IsSpaceOrTab(text[x])
        AfterParam(i) == text[i] = Newline /\ i > 1 /\ text[i - 1].k = TEMPLATE_PARAM_RE
        kept == SelectSeq(Positions(text), LAMBDA i :
                    ~(text[i].k = TEMPLATE_PARAM_RE \/ BeforeParam(i) \/ AfterParam(i)))
    IN  [j \in 1..Len(kept) |-> text[kept[j]]]

\* Step 1 of resolveTemplate: template defaults overlaid by the instance's
\* values (and types).
MergedParamsDefaultsWin(options) ==
    LET defs == parseTemplateParams(options.templateText)
        defaults == [j \in 1..Len(defs) |-> [key |-> defs[j].name, val |-> defs[j].value]]
    IN  MapSetAll(MapSetAll(<<>>, options.params), defaults)

MergedParams(options) ==
    LET defs == parseTemplateParams(options.templateText)
        defaults == [j \in 1..Len(defs) |-> [key |-> defs[j].name, val |-> defs[j].value]]
    IN  MapSetAll(MapSetAll(<<>>, defaults), options.params)

MergedTypes(options) ==
    LET defs == parseTemplateParams(options.templateText)
        defaults == [j \in 1..Len(defs) |-> [key |-> defs[j].name, val |-> defs[j].type]]
    IN  MapSetAll(MapSetAll(<<>>, defaults), options.paramTypes)

\* resolveTemplate, with the text after each step; isNested is the outcome
\* of INSTANCE_BEGIN_RE.test(text).
ResolveSteps(options, isNested) ==
    LET text == options.templateText
        nestedRewritten ==
            IF options.instancePath # ""
            THEN rewriteRelativePaths(text, options.templatePath, options.instancePath)
            ELSE text
        nestedEditable == resolveNestedEditableRegions(nestedRewritten, options.editableContents)
        nestedOut == syncInstanceParams(nestedEditable, options.params, options.paramTypes)
        mergedParams == MergedParams(options)
        mergedTypes == MergedTypes(options)
        stripped == StripTemplateParams(text)
        conditionals == resolveConditionals(stripped, mergedParams)
        optionals == resolveOptionalRegions(conditionals, mergedParams)
        variables == resolveVariables(optionals, mergedParams)
        rewritten ==
            IF options.instancePath # ""
            THEN rewriteRelativePaths(variables, options.templatePath, options.instancePath)
            ELSE variables
        repeats == resolveRepeatRegions(rewritten, options.repeatEntries)
        editables == resolveEditableRegions(repeats, options.editableContents)
        out == insertInstanceMarkers(editables, options.templatePath,
                                     options.codeOutsideHTMLIsLocked, mergedParams, mergedTypes)
    IN  IF isNested
        THEN [nested |-> TRUE, mergedParams |-> <<>>, mergedTypes |-> <<>>, stripped |-> text, conditionals |-> text,
              optionals |-> text, variables |-> text, rewritten |-> nestedRewritten,
              repeats |-> text, editables |-> nestedEditable, out |-> nestedOut]
        ELSE [nested |-> FALSE, mergedParams |-> mergedParams,
              mergedTypes |-> mergedTypes, stripped |-> stripped,
              conditionals |-> conditionals, optionals |-> optionals,
              variables |-> variables, rewritten |-> rewritten, repeats |-> repeats,
              editables |-> editables, out |-> out]

resolveTemplate(options, isNested) == ResolveSteps(options, isNested).out

\* The module-level regular expressions of the resolver.
Regexes ==
    {"TEMPLATE_PARAM_RE", "TEMPLATE_BEGIN_IF_RE", "TEMPLATE_VARIABLE_RE",
     "TEMPLATE_EDITABLE_RE", "TEMPLATE_OPTIONAL_RE", "TEMPLATE_REPEAT_RE",
     "INSTANCE_EDITABLE_RE", "INSTANCE_BEGIN_RE", "ATTR_URL_RE"}

Options(text, path, params, types, contents, locked, instancePath, entries) ==
    [templateText |-> text, templatePath |-> path, params |-> params,
     paramTypes |-> types, editableContents |-> contents,
     codeOutsideHTMLIsLocked |-> locked, instancePath |-> instancePath,
     repeatEntries |-> entries]

\* No resolveTemplate call has been made.
ResolverIdle ==
    /\ rOptions = Options(<<>>, "/Templates/T.dwt", <<>>, <<>>, <<>>, TRUE, "", <<>>)
    /\ rSteps = <<>> /\ rFirst = <<>> /\ rBetween = FALSE
    /\ lastIndex = [r \in Regexes |-> 0]
    /\ condResult = <<>> /\ rewriteResult = <<>> /\ loop = <<>>

\* ------------------------------------------------------ protection engine
MaxVersion == 4
MaxDocLen == 4
MaxUndo == 1

\* The undo stack after a change of the text, keeping the MaxUndo newest.
PushUndo(stack, text) ==
    LET all == Append(stack, text)
    IN  IF Len(all) > MaxUndo THEN SubSeq(all, Len(all) - MaxUndo + 1, Len(all)) ELSE all

\* ParseCache.getOrParse: the result and the cache entry afterwards.
getOrParseNoVersionCheck(c, text, version) ==
    IF c # <<>>
    THEN [result |-> c[1].result, cache |-> c]
    ELSE LET result == parseDocument(text)
         IN  [result |-> result, cache |-> <<[version |-> version, result |-> result]>>]

getOrParse(c, text, version) ==
    IF c # <<>> /\ c[1].version = version
    THEN [result |-> c[1].result, cache |-> c]
    ELSE LET result == parseDocument(text)
         IN  [result |-> result, cache |-> <<[version |-> version, result |-> result]>>]

\* The state of the engine variables in runs that do not use the engine.
EngineIdle ==
    /\ docText = <<>> /\ docVersion = 1 /\ undoStack = <<>> /\ redoStack = <<>>
    /\ activeIsDoc = TRUE /\ enableProtection = TRUE /\ cache = <<>>
    /\ lastParseResult = <<>> /\ isReverting = FALSE /\ isProgrammaticEdit = FALSE
    /\ revertPc = "idle" /\ progPc = "idle" /\ judged = <<>> /\ undoSkipped = FALSE

\* Documents the editor opens.
InstancePage ==
    <<Tok(INSTANCE_BEGIN, "/T.dwt", "", "true"), Named(INSTANCE_BEGIN_EDITABLE, "a"), Ch,
      Mk(INSTANCE_END_EDITABLE)>>

TemplateFile == <<Named(TEMPLATE_BEGIN_EDITABLE, "a"), Ch, Mk(TEMPLATE_END_EDITABLE)>>

PlainPage == <<Ch, Ch>>

OpenedDocuments == {InstancePage, TemplateFile, PlainPage}

\* Texts a programmatic edit writes (a page resolved again from its template).
ResolvedPages ==
    {<<Tok(INSTANCE_BEGIN, "/T.dwt", "", "true"), Ch, Named(INSTANCE_BEGIN_EDITABLE, "a"),
       Mk(INSTANCE_END_EDITABLE)>>,
     <<Tok(INSTANCE_BEGIN, "/T.dwt", "", "true"), Ch>>}

\* One content change: replace range by text.  An edit is a sequence of
\* changes with ascending, non-overlapping ranges in pre-edit offsets.
Change(s, e, t) == [range |-> Range(s, e), text |-> t]

\* Typing a character at s, deleting or overtyping the token at s.
SingleChanges(len) ==
    {<<Change(s, s, <<Ch>>)>> : s \in 0..len}
    \cup {<<Change(s, s + 1, t)>> : s \in 0..(len - 1), t \in {<<>>, <<Ch>>}}

\* Typing a character at two cursors.
DoubleChanges(len) ==
    {c \in {<<Change(s, s, <<Ch>>), Change(e, e, <<Ch>>)>> : s \in 0..len, e \in 0..len} :
        c[1].range.start < c[2].range.start}

UserEdits(len) == SingleChanges(len) \cup DoubleChanges(len)

\* The text after the changes, applied from the last one to the first.
RECURSIVE ApplyChanges(_, _)
ApplyChanges(text, changes) ==
    IF changes = <<>> THEN text
    ELSE LET c == changes[Len(changes)]
             after == SubSeq(text, 1, c.range.start) \o c.text
                      \o SubSeq(text, c.range.end + 1, Len(text))
         IN  ApplyChanges(after, SubSeq(changes, 1, Len(changes) - 1))

\* onDocumentChange, lines 84 to 88: some change is not inside the content
\* range of any editable region of the parse result.
hasViolationAnyRegionTouched(parseResult, changes) ==
    ~ \A c \in 1..Len(changes) :
        \E r \in 1..Len(parseResult.editableRegions) :
            rangeOverlaps(parseResult.editableRegions[r].contentRange, changes[c].range)

hasViolation(parseResult, changes) ==
    ~ \A c \in 1..Len(changes) :
        \E r \in 1..Len(parseResult.editableRegions) :
            rangeContains(parseResult.editableRegions[r].contentRange, changes[c].range)

\* What the documentation promises for an edit of the text pre: it is
\* reverted when the page has a template declaration and some change lies
\* outside every editable content range of the text as it is.
MustRevert(pre, changes) ==
    LET r == parseDocument(pre)
    IN  r.templateDeclaration # <<>> /\ hasViolation(r, changes)

\* Some change of an edit of the text pre lies inside the content range of a
\* library item of pre.
InLibraryItem(pre, changes) ==
    \E c \in 1..Len(changes) :
        \E j \in 1..Len(parseDocument(pre).libraryItems) :
            rangeContains(parseDocument(pre).libraryItems[j].contentRange, changes[c].range)

InitEngine ==
    /\ pText = <<>> /\ pResult = <<>> /\ rangeCall = <<>>
    /\ docText \in OpenedDocuments
    /\ docVersion = 1
    /\ undoStack = <<>> /\ redoStack = <<>>
    /\ activeIsDoc = TRUE
    /\ enableProtection = TRUE
    \* onDidOpenTextDocument has run initDocument
    /\ cache = <<[version |-> 1, result |-> parseDocument(docText)]>>
    /\ lastParseResult = <<parseDocument(docText)>>
    /\ isReverting = FALSE /\ isProgrammaticEdit = FALSE
    /\ revertPc = "idle" /\ progPc = "idle"
    /\ judged = <<>> /\ undoSkipped = FALSE
    /\ ResolverIdle

\* initDocument, run when the document's editor becomes the active one.
ActivateEditor ==
    /\ ~activeIsDoc
    /\ activeIsDoc' = TRUE
    /\ LET g == getOrParse(cache, docText, docVersion)
       IN  cache' = g.cache /\ lastParseResult' = <<g.result>>
    /\ UNCHANGED <<parserVars, resolverVars, docText, docVersion, undoStack, redoStack, enableProtection,
                   isReverting, isProgrammaticEdit, revertPc, progPc, judged, undoSkipped>>

\* Another editor becomes the active one.
DeactivateEditor ==
    /\ activeIsDoc
    /\ activeIsDoc' = FALSE
    /\ UNCHANGED <<parserVars, resolverVars, docText, docVersion, undoStack, redoStack, enableProtection,
                   cache, lastParseResult, isReverting, isProgrammaticEdit, revertPc,
                   progPc, judged, undoSkipped>>

\* toggleProtection
ToggleProtection ==
    /\ enableProtection' = ~enableProtection
    /\ UNCHANGED <<parserVars, resolverVars, docText, docVersion, undoStack, redoStack, activeIsDoc,
                   cache, lastParseResult, isReverting, isProgrammaticEdit, revertPc,
                   progPc, judged, undoSkipped>>

\* The document is closed (stateTracker.remove, parseCache.invalidate) and
\* opened again (initDocument).
CloseAndReopen ==
    /\ revertPc = "idle" /\ progPc = "idle"
    /\ isReverting' = FALSE /\ isProgrammaticEdit' = FALSE
    /\ LET g == getOrParse(<<>>, docText, docVersion)
       IN  cache' = g.cache /\ lastParseResult' = <<g.result>>
    /\ undoStack' = <<>> /\ redoStack' = <<>>
    /\ UNCHANGED <<parserVars, resolverVars, docText, docVersion, activeIsDoc, enableProtection,
                   revertPc, progPc, judged, undoSkipped>>

\* A change event that is neither an undo nor a redo: the text changes and
\* onDocumentChange runs up to its first await.
EditArrives(changes) ==
    /\  LET after == ApplyChanges(docText, changes)
            g == getOrParse(cache, after, docVersion + 1)
            gInvalidated == getOrParse(<<>>, after, docVersion + 1)
            quickExit == ~enableProtection \/ isReverting \/ isProgrammaticEdit
            unlocked == \/ lastParseResult = <<>>
                        \/ lastParseResult[1].fileType = "none"
                        \/ lastParseResult[1].templateDeclaration = <<>>
                        \/ Len(lastParseResult[1].protectedRegions) = 0
            violation == ~quickExit /\ ~unlocked /\ hasViolation(lastParseResult[1], changes)
        IN  /\ Len(after) <= MaxDocLen \/ Len(after) <= Len(docText)
            /\ docText' = after
            /\ docVersion' = docVersion + 1
            /\ undoStack' = PushUndo(undoStack, docText)
            /\ redoStack' = <<>>
            /\ IF quickExit
               THEN /\ UNCHANGED <<cache, lastParseResult, isReverting, revertPc,
                                   undoSkipped>>
                    /\ judged' = IF revertPc # "idle"
                                 THEN <<[judged[1] EXCEPT !.interrupted = TRUE]>>
                                 ELSE judged
               ELSE /\ judged' = <<[fresh |-> lastParseResult = <<parseDocument(docText)>>,
                                     mustRevert |-> MustRevert(docText, changes),
                                     violation |-> violation,
                                     undoIssued |-> violation /\ activeIsDoc,
                                     finished |-> ~(violation /\ activeIsDoc),
                                     interrupted |-> FALSE,
                                     inLibraryItem |-> InLibraryItem(docText, changes),
                                     pre |-> docText]>>
                    /\ undoSkipped' = (undoSkipped \/ (violation /\ ~activeIsDoc))
                    /\ IF unlocked
                       THEN /\ cache' = g.cache /\ lastParseResult' = <<g.result>>
                            /\ UNCHANGED <<isReverting, revertPc>>
                       ELSE IF ~violation
                       THEN /\ cache' = gInvalidated.cache
                            /\ lastParseResult' = <<gInvalidated.result>>
                            /\ UNCHANGED <<isReverting, revertPc>>
                       ELSE \* revertChange: beginRevert, then undo or not
                            /\ UNCHANGED <<cache, lastParseResult>>
                            /\ IF activeIsDoc
                               THEN isReverting' = TRUE /\ revertPc' = "awaitUndo"
                               ELSE isReverting' = FALSE /\ revertPc' = "idle"
    /\ UNCHANGED <<parserVars, resolverVars, activeIsDoc, enableProtection, isProgrammaticEdit>>

\* A user edit.
UserEdit ==
    /\ docVersion < MaxVersion
    /\ \E changes \in UserEdits(Len(docText)) : EditArrives(changes)
    /\ UNCHANGED progPc

\* onDocumentChange for a change event with reason Undo or Redo (or any
\* change that is not judged): the common quick exits and the pass-through.
PassThroughWhileReverting(after, version) ==
    IF ~enableProtection \/ isProgrammaticEdit
    THEN UNCHANGED <<cache, lastParseResult>>
    ELSE LET g == getOrParse(cache, after, version)
         IN  cache' = g.cache /\ lastParseResult' = <<g.result>>

PassThrough(after, version) ==
    IF ~enableProtection \/ isReverting \/ isProgrammaticEdit
    THEN UNCHANGED <<cache, lastParseResult>>
    ELSE LET g == getOrParse(cache, after, version)
         IN  cache' = g.cache /\ lastParseResult' = <<g.result>>

\* The user undoes the last change.
UserUndo ==
    /\ revertPc = "idle"
    /\ undoStack # <<>>
    /\ docVersion < MaxVersion
    /\ docText' = undoStack[Len(undoStack)]
    /\ undoStack' = SubSeq(undoStack, 1, Len(undoStack) - 1)
    /\ redoStack' = PushUndo(redoStack, docText)
    /\ docVersion' = docVersion + 1
    /\ PassThrough(docText', docVersion')
    /\ UNCHANGED <<parserVars, resolverVars, activeIsDoc, enableProtection, isReverting,
                   isProgrammaticEdit, revertPc, progPc, judged, undoSkipped>>

\* The user redoes the last undone change.
UserRedo ==
    /\ revertPc = "idle"
    /\ redoStack # <<>>
    /\ docVersion < MaxVersion
    /\ docText' = redoStack[Len(redoStack)]
    /\ redoStack' = SubSeq(redoStack, 1, Len(redoStack) - 1)
    /\ undoStack' = PushUndo(undoStack, docText)
    /\ docVersion' = docVersion + 1
    /\ PassThrough(docText', docVersion')
    /\ UNCHANGED <<parserVars, resolverVars, activeIsDoc, enableProtection, isReverting,
                   isProgrammaticEdit, revertPc, progPc, judged, undoSkipped>>

\* revertChange: the awaited undo command runs; its change event (reason
\* Undo) reaches onDocumentChange, which returns at the isReverting test.
RevertUndoRuns ==
    /\ revertPc = "awaitUndo"
    /\ undoStack # <<>>
    /\ docText' = undoStack[Len(undoStack)]
    /\ undoStack' = SubSeq(undoStack, 1, Len(undoStack) - 1)
    /\ redoStack' = PushUndo(redoStack, docText)
    /\ docVersion' = docVersion + 1
    /\ PassThrough(docText', docVersion')
    /\ revertPc' = "undone"
    /\ UNCHANGED <<parserVars, resolverVars, activeIsDoc, enableProtection, isReverting,
                   isProgrammaticEdit, progPc, judged, undoSkipped>>

\* revertChange: the finally block, endRevert.
RevertFinishes ==
    /\ revertPc = "undone"
    /\ isReverting' = FALSE
    /\ revertPc' = "idle"
    /\ judged' = <<[judged[1] EXCEPT !.finished = TRUE]>>
    /\ UNCHANGED <<parserVars, resolverVars, docText, docVersion, undoStack, redoStack, activeIsDoc,
                   enableProtection, cache, lastParseResult, isProgrammaticEdit, progPc,
                   undoSkipped>>

\* revertChange: the awaited undo command is rejected; the finally block
\* runs endRevert and the text stays as the edit left it.
RevertUndoThrows ==
    /\ revertPc = "awaitUndo"
    /\ isReverting' = FALSE
    /\ revertPc' = "idle"
    /\ judged' = <<[judged[1] EXCEPT !.finished = TRUE]>>
    /\ UNCHANGED <<parserVars, resolverVars, docText, docVersion, undoStack, redoStack, activeIsDoc,
                   enableProtection, cache, lastParseResult, isProgrammaticEdit, progPc,
                   undoSkipped>>

\* updateInstanceParam and the other programmatic operations:
\* beginProgrammaticEdit.
BeginProgrammaticEdit ==
    /\ progPc = "idle"
    /\ docVersion < MaxVersion
    /\ isProgrammaticEdit' = TRUE
    /\ progPc' = "begun"
    /\ UNCHANGED <<parserVars, resolverVars, docText, docVersion, undoStack, redoStack, activeIsDoc,
                   enableProtection, cache, lastParseResult, isReverting, revertPc, judged, undoSkipped>>

\* The operation replaces the whole text; the change event reaches
\* onDocumentChange.
ProgrammaticEditApplies ==
    /\ progPc = "begun"
    /\ \E resolved \in ResolvedPages :
        /\ docText' = resolved
        /\ docVersion' = docVersion + 1
        /\ undoStack' = PushUndo(undoStack, docText)
        /\ redoStack' = <<>>
        /\ PassThrough(resolved, docVersion + 1)
    /\ progPc' = "edited"
    /\ UNCHANGED <<parserVars, resolverVars, activeIsDoc, enableProtection, isReverting,
                   isProgrammaticEdit, revertPc, judged, undoSkipped>>

\* The finally block: endProgrammaticEdit.
EndProgrammaticEdit ==
    /\ progPc = "edited"
    /\ isProgrammaticEdit' = FALSE
    /\ progPc' = "idle"
    /\ UNCHANGED <<parserVars, resolverVars, docText, docVersion, undoStack, redoStack, activeIsDoc,
                   enableProtection, cache, lastParseResult, isReverting, revertPc, judged, undoSkipped>>

NextEngine ==
    \/ ActivateEditor \/ DeactivateEditor \/ ToggleProtection \/ CloseAndReopen
    \/ UserEdit \/ UserUndo \/ UserRedo \/ RevertUndoRuns \/ RevertFinishes
    \/ BeginProgrammaticEdit \/ ProgrammaticEditApplies \/ EndProgrammaticEdit

SpecEngine == InitEngine /\ [][NextEngine]_vars

\* ------------------------------------------------- parser runs (SpecParse)
\* All texts of at most n tokens over an alphabet.
RECURSIVE SeqsUpTo(_, _)
SeqsUpTo(alphabet, n) ==
    IF n = 0 THEN {<<>>}
    ELSE LET shorter == SeqsUpTo(alphabet, n - 1)
         IN  shorter \cup {Append(s, a) : s \in {x \in shorter : Len(x) = n - 1},
                                          a \in alphabet}

\* Instance pages: declaration, editable regions, library items.
InstanceAlphabet ==
    {Ch, Tok(INSTANCE_BEGIN, "/T.dwt", "", "true"), Named(INSTANCE_BEGIN_EDITABLE, "a"),
     Mk(INSTANCE_END_EDITABLE), Named(BEGIN_LIBRARY_ITEM, "/L.lbi"), Mk(END_LIBRARY_ITEM)}

\* Templates: editable regions, repeat regions, a malformed begin marker.
TemplateAlphabet ==
    {Ch, Named(TEMPLATE_BEGIN_EDITABLE, "a"), Mk(TEMPLATE_END_EDITABLE),
     Mk(MalformedTemplateBeginEditable), Named(TEMPLATE_BEGIN_REPEAT, "r"),
     Mk(TEMPLATE_END_REPEAT)}

\* Conditionals, instance optional regions, parameters and variables.
ConditionalAlphabet ==
    {Tok(INSTANCE_BEGIN, "/T.dwt", "", "false"), Named(TEMPLATE_BEGIN_IF, "P"),
     Mk(TEMPLATE_END_IF), Named(INSTANCE_BEGIN_OPTIONAL, "o"), Mk(INSTANCE_END_OPTIONAL),
     Tok(INSTANCE_PARAM, "P", "text", "v"), Named(TEMPLATE_VARIABLE, "P")}

\* Template optional regions.
OptionalAlphabet ==
    {Ch, Named(TEMPLATE_BEGIN_EDITABLE, "a"), Mk(TEMPLATE_END_EDITABLE),
     Named(TEMPLATE_BEGIN_OPTIONAL, "o"), Mk(TEMPLATE_END_OPTIONAL)}

\* Instance repeat regions with entries and their editable regions.
RepeatAlphabet ==
    {Named(INSTANCE_BEGIN_REPEAT, "r"), Mk(INSTANCE_END_REPEAT),
     Mk(INSTANCE_BEGIN_REPEAT_ENTRY), Mk(INSTANCE_END_REPEAT_ENTRY),
     Named(INSTANCE_BEGIN_EDITABLE, "a"), Mk(INSTANCE_END_EDITABLE), Ch}

ParseInputs ==
    SeqsUpTo(InstanceAlphabet, MaxLen) \cup SeqsUpTo(TemplateAlphabet, MaxLen)
    \cup SeqsUpTo(ConditionalAlphabet, MaxLen) \cup SeqsUpTo(OptionalAlphabet, MaxLen)
    \cup SeqsUpTo(RepeatAlphabet, MaxLen)

InitParse ==
    /\ pText \in ParseInputs
    /\ pResult = <<>> /\ rangeCall = <<>>
    /\ EngineIdle
    /\ ResolverIdle

\* One call of parseDocument on the document.
Parse ==
    /\ pResult = <<>>
    /\ pResult' = <<parseDocument(pText)>>
    /\ UNCHANGED <<pText, rangeCall, engineVars, resolverVars>>

\* The document is replaced by another one and is parsed afresh.
NewDocument ==
    /\ pResult # <<>>
    /\ pText' \in {<<>>, <<Ch>>}
    /\ pResult' = <<>>
    /\ UNCHANGED <<rangeCall, engineVars, resolverVars>>

NextParse == Parse \/ NewDocument

SpecParse == InitParse /\ [][NextParse]_vars

Parsed == pResult # <<>>

PR == pResult[1]

\* ---------------------------------------------------------- parser claims
InRange(r, off) == r.start <= off /\ off < r.end

Offsets == 0..(Len(pText) - 1)

\* Protected ranges then editable content ranges, as one sequence.
TileRanges(res) ==
    [j \in 1..Len(res.protectedRegions) |-> res.protectedRegions[j].range]
    \o [j \in 1..Len(res.editableRegions) |-> res.editableRegions[j].contentRange]

\* The protected ranges computeProtectedRegions produced, i.e. all but the
\* library item content ranges appended after them.
ComplementRanges(res) ==
    [j \in 1..(Len(res.protectedRegions) - Len(res.libraryItems)) |->
        res.protectedRegions[j].range]

ContentRanges(res) ==
    [j \in 1..Len(res.editableRegions) |-> res.editableRegions[j].contentRange]

C2_MarkersProtected ==
    Parsed =>
        \A j \in 1..Len(PR.editableRegions) :
            LET r == PR.editableRegions[j]
                Covered(m) == \E i \in 1..Len(PR.protectedRegions) :
                                 rangeContains(PR.protectedRegions[i].range, m)
            IN  /\ r.contentRange = Range(r.beginMarkerRange.end, r.endMarkerRange.start)
                /\ Covered(r.beginMarkerRange)
                /\ Covered(r.endMarkerRange)

\* C3 (as stated): a text without any editable-region marker has exactly one
\* protected region, the whole document.
EditableMarkerKinds ==
    {TEMPLATE_BEGIN_EDITABLE, TEMPLATE_END_EDITABLE, INSTANCE_BEGIN_EDITABLE,
     INSTANCE_END_EDITABLE}

TypeMarkerKinds ==
    {INSTANCE_BEGIN, INSTANCE_BEGIN_EDITABLE, TEMPLATE_BEGIN_EDITABLE,
     MalformedTemplateBeginEditable}

C4_NoneIsEmpty ==
    Parsed =>
        /\ PR.fileType = "none" <=> ~HasKind(pText, TypeMarkerKinds)
        /\ PR.fileType = "none" =>
              /\ PR.templateDeclaration = <<>>
              /\ PR.editableRegions = <<>> /\ PR.protectedRegions = <<>>
              /\ PR.instanceParams = <<>> /\ PR.templateVariables = <<>>
              /\ PR.conditionalRegions = <<>> /\ PR.optionalRegions = <<>>
              /\ PR.repeatRegions = <<>> /\ PR.libraryItems = <<>>

\* A parsed text of type none that holds a library item and a parameter-like
\* marker of another family.
C4_Witness ==
    /\ Parsed
    /\ PR.fileType = "none"
    /\ HasKind(pText, {BEGIN_LIBRARY_ITEM, TEMPLATE_BEGIN_IF, INSTANCE_PARAM})
    /\ HasKind(pText, {END_LIBRARY_ITEM, TEMPLATE_END_IF, TEMPLATE_VARIABLE})

\* The pairing C5 describes: the begin markers in order, each with the first
\* end marker not yet consumed that starts at or after the begin's end.
RECURSIVE ClaimedPairs(_, _, _, _)
ClaimedPairs(begins, ends, bi, consumed) ==
    IF bi > Len(begins) THEN <<>>
    ELSE LET ok == {e \in (consumed + 1)..Len(ends) : ends[e].start >= begins[bi].end}
         IN  IF ok = {} THEN <<>>
             ELSE LET e == CHOOSE x \in ok : \A y \in ok : x <= y
                  IN  <<Range(begins[bi].end, ends[e].start)>>
                      \o ClaimedPairs(begins, ends, bi + 1, e)

ClaimedContent(text, beginKind, endKind) ==
    ClaimedPairs(findBeginMarkers(beginKind, text), findEndMarkers(endKind, text), 1, 0)

\* The span between the markers of each repeat region.
RepeatContent(res) ==
    [j \in 1..Len(res.repeatRegions) |->
        Range(res.repeatRegions[j].beginMarkerRange.end,
              res.repeatRegions[j].endMarkerRange.start)]

\* C5 (as stated): every family is paired as ClaimedPairs describes.
C5_PairingAllFamilies ==
    (Parsed /\ PR.fileType # "none") =>
        /\ ContentRanges(PR) =
              IF PR.fileType = "template"
              THEN ClaimedContent(pText, TEMPLATE_BEGIN_EDITABLE, TEMPLATE_END_EDITABLE)
              ELSE ClaimedContent(pText, INSTANCE_BEGIN_EDITABLE, INSTANCE_END_EDITABLE)
        /\ [j \in 1..Len(PR.conditionalRegions) |-> PR.conditionalRegions[j].contentRange]
              = ClaimedContent(pText, TEMPLATE_BEGIN_IF, TEMPLATE_END_IF)
        /\ [j \in 1..Len(PR.optionalRegions) |-> PR.optionalRegions[j].contentRange] =
              IF PR.fileType = "template"
              THEN ClaimedContent(pText, TEMPLATE_BEGIN_OPTIONAL, TEMPLATE_END_OPTIONAL)
              ELSE ClaimedContent(pText, INSTANCE_BEGIN_OPTIONAL, INSTANCE_END_OPTIONAL)
        /\ [j \in 1..Len(PR.libraryItems) |-> PR.libraryItems[j].contentRange]
              = ClaimedContent(pText, BEGIN_LIBRARY_ITEM, END_LIBRARY_ITEM)
        /\ RepeatContent(PR) =
              IF PR.fileType = "template"
              THEN ClaimedContent(pText, TEMPLATE_BEGIN_REPEAT, TEMPLATE_END_REPEAT)
              ELSE ClaimedContent(pText, INSTANCE_BEGIN_REPEAT, INSTANCE_END_REPEAT)

\* The part of C5 the code does satisfy (not a settled claim): the families
\* paired with a strict comparison.
C5_PairingStrictFamilies ==
    (Parsed /\ PR.fileType # "none") =>
        /\ ContentRanges(PR) =
              IF PR.fileType = "template"
              THEN ClaimedContent(pText, TEMPLATE_BEGIN_EDITABLE, TEMPLATE_END_EDITABLE)
              ELSE ClaimedContent(pText, INSTANCE_BEGIN_EDITABLE, INSTANCE_END_EDITABLE)
        /\ [j \in 1..Len(PR.conditionalRegions) |-> PR.conditionalRegions[j].contentRange]
              = ClaimedContent(pText, TEMPLATE_BEGIN_IF, TEMPLATE_END_IF)
        /\ [j \in 1..Len(PR.optionalRegions) |-> PR.optionalRegions[j].contentRange] =
              IF PR.fileType = "template"
              THEN ClaimedContent(pText, TEMPLATE_BEGIN_OPTIONAL, TEMPLATE_END_OPTIONAL)
              ELSE ClaimedContent(pText, INSTANCE_BEGIN_OPTIONAL, INSTANCE_END_OPTIONAL)

\* ---------------------------------------------------------- engine claims
\* C6 (as stated, and only for runs in which every blocked edit was made in
\* the active editor): a judged user edit is reverted (the undo is issued)
\* exactly when the parse of the text before the edit has a template
\* declaration and some change lies outside every editable content range,
\* and once the undo has run (no other change having arrived meanwhile) the
\* text is the text before the edit.
C6_RevertedIffViolation ==
    (judged # <<>> /\ ~undoSkipped) =>
        /\ judged[1].undoIssued <=> judged[1].mustRevert
        /\ (revertPc = "undone" /\ ~judged[1].interrupted) => docText = judged[1].pre

\* C7 (as stated, and only for runs in which every blocked edit was made in
\* the active editor): the parse result used to judge a user edit is the
\* parse of the text immediately before that edit.
C7_JudgedWithFreshParse ==
    (judged # <<>> /\ ~undoSkipped) => judged[1].fresh

\* ------------------------------------------------------------ resolver runs
MaxTemplateLen == 4

PlainY == Named(PLAIN, "y")
PlainZ == Named(PLAIN, "z")

\* Templates of conditional blocks.
IfAlphabet == {Ch, Named(TEMPLATE_BEGIN_IF, "P"), Named(TEMPLATE_BEGIN_IF, "Q"), Mk(TEMPLATE_END_IF)}

\* Templates of editable and repeat blocks.
EditAlphabet ==
    {Ch, Named(TEMPLATE_BEGIN_EDITABLE, "a"), Mk(TEMPLATE_END_EDITABLE),
     Named(TEMPLATE_BEGIN_REPEAT, "r"), Mk(TEMPLATE_END_REPEAT)}

\* Templates of editable blocks inside conditional and optional blocks.
MixedAlphabet ==
    {Named(TEMPLATE_BEGIN_IF, "P"), Mk(TEMPLATE_END_IF), Named(TEMPLATE_BEGIN_EDITABLE, "a"),
     Mk(TEMPLATE_END_EDITABLE), Named(TEMPLATE_BEGIN_OPTIONAL, "Q"), Mk(TEMPLATE_END_OPTIONAL)}

Entry(key, val) == [key |-> key, val |-> val]

CallerParams ==
    {<<>>, <<Entry("P", "true")>>, <<Entry("Q", "true")>>,
     <<Entry("Q", "false"), Entry("P", "true")>>}

CallerContents ==
    {<<>>, <<Entry("a", <<PlainY>>)>>,
     <<Entry("a", <<Named(TEMPLATE_BEGIN_EDITABLE, "a")>>)>>}

CallerRepeatEntries ==
    {<<>>, <<Entry("r", << <<Entry("a", <<PlainZ>>)>> >>)>>}

TemplatePath == "/Templates/T.dwt"

InstancePaths == {"/index.html", "/Templates/p.html", "/a/b/p.html"}

StylesheetUrl == Url("relative", 1, <<"css", "s.css">>, "", "")

\* A whole template and a nested template (a template that is itself an
\* instance of a base template).
TemplatePage ==
    <<Mk(HTML_OPEN), Tab, Tok(TEMPLATE_PARAM_RE, "P", "boolean", "true"), Newline,
      AttrUrl(StylesheetUrl), Mk(HEAD_CLOSE), Named(TEMPLATE_BEGIN_IF, "P"), Ch,
      Mk(TEMPLATE_END_IF), Named(TEMPLATE_BEGIN_EDITABLE, "a"), Ch, Mk(TEMPLATE_END_EDITABLE),
      Named(TEMPLATE_VARIABLE, "P"), Mk(HTML_CLOSE), Newline>>

NestedTemplatePage ==
    <<Mk(HTML_OPEN), Tok(INSTANCE_BEGIN, "/Templates/Base.dwt", "", "true"),
      Tok(INSTANCE_PARAM, "P", "text", "v"), AttrUrl(StylesheetUrl), Mk(HEAD_CLOSE),
      Named(INSTANCE_BEGIN_EDITABLE, "a"), Ch, Mk(INSTANCE_END_EDITABLE),
      Named(TEMPLATE_BEGIN_EDITABLE, "b"), Ch, Mk(TEMPLATE_END_EDITABLE),
      Mk(INSTANCE_END), Mk(HTML_CLOSE)>>

PageInputs ==
    {Options(text, TemplatePath, params, <<>>, contents, locked, instancePath, <<>>) :
        text \in {TemplatePage, NestedTemplatePage}, params \in CallerParams,
        contents \in CallerContents, locked \in BOOLEAN,
        instancePath \in {""} \cup InstancePaths}

ResolveInputs ==
    {Options(text, TemplatePath, params, <<>>, <<>>, TRUE, "", <<>>) :
        text \in SeqsUpTo(IfAlphabet, MaxTemplateLen), params \in CallerParams}
    \cup {Options(text, TemplatePath, <<>>, <<>>, contents, TRUE, "", entries) :
        text \in SeqsUpTo(EditAlphabet, MaxTemplateLen), contents \in CallerContents,
        entries \in CallerRepeatEntries}
    \cup {Options(text, TemplatePath, params, <<>>, contents, TRUE, "", <<>>) :
        text \in SeqsUpTo(MixedAlphabet, MaxTemplateLen),
        params \in {<<>>, <<Entry("Q", "false"), Entry("P", "true")>>},
        contents \in {<<>>, <<Entry("a", <<PlainY>>)>>}}
    \cup PageInputs

ParserIdle == pText = <<>> /\ pResult = <<>> /\ rangeCall = <<>>

InitResolve ==
    /\ ParserIdle /\ EngineIdle
    /\ rOptions \in ResolveInputs
    /\ rSteps = <<>> /\ rFirst = <<>> /\ rBetween = FALSE
    /\ lastIndex = [r \in Regexes |-> 0]
    /\ condResult = <<>> /\ rewriteResult = <<>> /\ loop = <<>>

\* The regular expressions a resolveTemplate call resets and scans with.
UsedRegexes(options, isNested) ==
    (IF options.instancePath # ""
        /\ Dirname(options.templatePath) # Dirname(options.instancePath)
     THEN {"ATTR_URL_RE"} ELSE {})
    \cup (IF isNested THEN {"INSTANCE_EDITABLE_RE"}
          ELSE {"TEMPLATE_PARAM_RE", "TEMPLATE_BEGIN_IF_RE", "TEMPLATE_OPTIONAL_RE",
                "TEMPLATE_VARIABLE_RE", "TEMPLATE_REPEAT_RE", "TEMPLATE_EDITABLE_RE"})

\* One call of resolveTemplate(rOptions).
Resolve ==
    /\ rSteps = <<>>
    /\ LET test == RegexTest(INSTANCE_BEGIN_RE_FLAGS, lastIndex["INSTANCE_BEGIN_RE"],
                             rOptions.templateText, INSTANCE_BEGIN)
       IN  /\ rSteps' = <<ResolveSteps(rOptions, test.matched)>>
           /\ lastIndex' =
                 [r \in Regexes |->
                    IF r = "INSTANCE_BEGIN_RE" THEN test.lastIndex
                    ELSE IF r \in UsedRegexes(rOptions, test.matched) THEN 0
                    ELSE lastIndex[r]]
    /\ rBetween' = (rFirst # <<>> /\ (rBetween \/ rOptions # rFirst[1].options))
    /\ UNCHANGED <<parserVars, engineVars, rOptions, rFirst, condResult, rewriteResult, loop>>

\* The calls of a session that resolves the same pages again and again.
CallInputs ==
    {Options(text, TemplatePath, <<Entry("P", "true")>>, <<>>, contents, TRUE, instancePath,
             <<>>) :
        text \in {TemplatePage, NestedTemplatePage},
        contents \in {<<>>, <<Entry("a", <<PlainY>>)>>},
        instancePath \in {"", "/index.html"}}

InitCalls ==
    /\ ParserIdle /\ EngineIdle
    /\ rOptions \in CallInputs
    /\ rSteps = <<>> /\ rFirst = <<>> /\ rBetween = FALSE
    /\ lastIndex = [r \in Regexes |-> 0]
    /\ condResult = <<>> /\ rewriteResult = <<>> /\ loop = <<>>

\* The call that has returned is kept, to be compared with a later one.
Remember ==
    /\ rSteps # <<>>
    /\ rFirst' = <<[options |-> rOptions, out |-> rSteps[1].out]>>
    /\ rBetween' = FALSE
    /\ UNCHANGED <<parserVars, engineVars, rOptions, rSteps, lastIndex, condResult,
                   rewriteResult, loop>>

\* The caller prepares another resolveTemplate call.
CallAgain ==
    /\ rSteps # <<>>
    /\ rOptions' \in CallInputs
    /\ rSteps' = <<>>
    /\ UNCHANGED <<parserVars, engineVars, rFirst, rBetween, lastIndex, condResult,
                   rewriteResult, loop>>

CallConditions == {"P", "P=='v'", "_document['P']", "P && Q"}

\* A call of evaluateCondition with its result.
EvaluationOf(condition, params) ==
    [condition |-> condition, params |-> params,
     value |-> evaluateCondition(condition, params)]

\* A direct call of evaluateCondition.
EvaluateConditionCall ==
    /\ \E condition \in CallConditions :
          condResult' = <<EvaluationOf(ConditionText(condition), rOptions.params)>>
    /\ rBetween' = (rFirst # <<>>)
    /\ UNCHANGED <<parserVars, engineVars, rOptions, rSteps, rFirst, lastIndex,
                   rewriteResult, loop>>

\* A direct call of rewriteRelativePaths.
RewriteCall ==
    /\ \E instancePath \in InstancePaths :
          /\ rewriteResult' =
                <<rewriteRelativePaths(rOptions.templateText, rOptions.templatePath,
                                       instancePath)>>
          /\ lastIndex' =
                IF Dirname(rOptions.templatePath) # Dirname(instancePath)
                THEN [lastIndex EXCEPT !["ATTR_URL_RE"] = 0] ELSE lastIndex
    /\ rBetween' = (rFirst # <<>>)
    /\ UNCHANGED <<parserVars, engineVars, rOptions, rSteps, rFirst, condResult, loop>>

NextResolve == Resolve

SpecResolve == InitResolve /\ [][NextResolve]_vars

NextCalls == Resolve \/ Remember \/ CallAgain \/ EvaluateConditionCall \/ RewriteCall

SpecCalls == InitCalls /\ [][NextCalls]_vars

\* ---------------------------------------------------------- resolver claims
Resolved == rSteps # <<>>
RS == rSteps[1]

\* C8: resolveTemplate is deterministic: a call whose options equal those of
\* an earlier call returns the text the earlier call returned, whatever
\* resolveTemplate, evaluateCondition and rewriteRelativePaths calls were
\* made before or between the two (the module-level regular expressions
\* carry no state from one call to the next).
C8_Deterministic ==
    (Resolved /\ rFirst # <<>> /\ rFirst[1].options = rOptions)
        => RS.out = rFirst[1].out

\* A nested template resolved a second time, after a call with other
\* options and after direct evaluateCondition and rewriteRelativePaths calls.
C8_Witness ==
    /\ Resolved /\ rFirst # <<>> /\ rFirst[1].options = rOptions
    /\ rBetween /\ condResult # <<>> /\ rewriteResult # <<>>
    /\ RS.nested

\* The editable and repeat markers of a text, in order.
BlockMarkers(text) ==
    SelectSeq(text, LAMBDA tok :
        tok.k \in {TEMPLATE_BEGIN_EDITABLE, TEMPLATE_END_EDITABLE, TEMPLATE_BEGIN_REPEAT,
                   TEMPLATE_END_REPEAT})

\* Every editable block is closed before the next marker, every repeat
\* block holds whole editable blocks only and is closed, nothing is unpaired.
RECURSIVE MarkersWellFormed(_, _, _)
MarkersWellFormed(ms, i, mode) ==
    IF i > Len(ms) THEN mode = "outside"
    ELSE LET k == ms[i].k
         IN  CASE mode = "outside" /\ k = TEMPLATE_BEGIN_EDITABLE ->
                      MarkersWellFormed(ms, i + 1, "editable")
               [] mode = "outside" /\ k = TEMPLATE_BEGIN_REPEAT ->
                      MarkersWellFormed(ms, i + 1, "repeat")
               [] mode = "editable" /\ k = TEMPLATE_END_EDITABLE ->
                      MarkersWellFormed(ms, i + 1, "outside")
               [] mode = "repeat" /\ k = TEMPLATE_BEGIN_EDITABLE ->
                      MarkersWellFormed(ms, i + 1, "repeatEditable")
               [] mode = "repeat" /\ k = TEMPLATE_END_REPEAT ->
                      MarkersWellFormed(ms, i + 1, "outside")
               [] mode = "repeatEditable" /\ k = TEMPLATE_END_EDITABLE ->
                      MarkersWellFormed(ms, i + 1, "repeat")
               [] OTHER -> FALSE

WellFormedBlocks(text) == MarkersWellFormed(BlockMarkers(text), 1, "outside")

\* No supplied content carries an editable or repeat marker of a template.
CleanContents(options) ==
    /\ \A i \in 1..Len(options.editableContents) :
          BlockMarkers(options.editableContents[i].val) = <<>>
    /\ \A i \in 1..Len(options.repeatEntries) :
          \A e \in 1..Len(options.repeatEntries[i].val) :
             \A c \in 1..Len(options.repeatEntries[i].val[e]) :
                BlockMarkers(options.repeatEntries[i].val[e][c].val) = <<>>

NextOfKind(text, i, kind) == MinOf({j \in (i + 1)..Len(text) : text[j].k = kind})

\* What a well-formed text becomes: an editable block named N becomes an
\* instance editable region holding the content supplied for N, or the
\* block's own content; a repeat block becomes one entry per supplied entry
\* (one default entry for none), each resolved with that entry's contents.
RECURSIVE ExpectedBlocks(_, _, _, _)
ExpectedBlocks(text, i, contents, entries) ==
    IF i > Len(text) THEN <<>>
    ELSE IF text[i].k = TEMPLATE_BEGIN_EDITABLE
    THEN LET j == NextOfKind(text, i, TEMPLATE_END_EDITABLE)
             n == text[i].n
         IN  <<Named(INSTANCE_BEGIN_EDITABLE, n)>>
             \o (IF MapHas(contents, n) THEN MapGet(contents, n)
                 ELSE SubSeq(text, i + 1, j - 1))
             \o <<Mk(INSTANCE_END_EDITABLE)>>
             \o ExpectedBlocks(text, j + 1, contents, entries)
    ELSE IF text[i].k = TEMPLATE_BEGIN_REPEAT
    THEN LET j == NextOfKind(text, i, TEMPLATE_END_REPEAT)
             n == text[i].n
             block == SubSeq(text, i + 1, j - 1)
             list == IF MapHas(entries, n) /\ MapGet(entries, n) # <<>>
                     THEN MapGet(entries, n) ELSE << <<>> >>
             RECURSIVE EntriesFrom(_)
             EntriesFrom(e) ==
                 IF e > Len(list) THEN <<>>
                 ELSE <<Mk(INSTANCE_BEGIN_REPEAT_ENTRY)>>
                      \o ExpectedBlocks(block, 1, list[e], <<>>)
                      \o <<Mk(INSTANCE_END_REPEAT_ENTRY)>> \o EntriesFrom(e + 1)
         IN  <<Named(INSTANCE_BEGIN_REPEAT, n)>> \o EntriesFrom(1)
             \o <<Mk(INSTANCE_END_REPEAT)>>
             \o ExpectedBlocks(text, j + 1, contents, entries)
    ELSE <<text[i]>> \o ExpectedBlocks(text, i + 1, contents, entries)

\* A text without the markers and the white space insertInstanceMarkers adds.
WithoutInstanceMarkers(text) ==
    SelectSeq(text, LAMBDA tok :
        tok.k \notin {INSTANCE_BEGIN, INSTANCE_PARAM, INSTANCE_END} /\ ~IsWhitespace(tok))

\* C9 as stated: every editable block of the text that survives conditional
\* and optional resolution appears in the output as an instance editable
\* region of its name, holding the caller's content for that name when
\* editableContents has one, and the output has no TemplateBeginEditable.
C9_EveryEditableBlockResolved ==
    (Resolved /\ ~RS.nested) =>
        /\ ~HasKind(RS.out, {TEMPLATE_BEGIN_EDITABLE})
        /\ \A i \in 1..Len(RS.optionals) :
              (/\ RS.optionals[i].k = TEMPLATE_BEGIN_EDITABLE
               /\ \E j \in (i + 1)..Len(RS.optionals) :
                     RS.optionals[j].k = TEMPLATE_END_EDITABLE)
              => \E p \in 1..Len(RS.out) : \E q \in (p + 1)..Len(RS.out) :
                    /\ RS.out[p] = Named(INSTANCE_BEGIN_EDITABLE, RS.optionals[i].n)
                    /\ RS.out[q].k = INSTANCE_END_EDITABLE
                    /\ \A x \in (p + 1)..(q - 1) : RS.out[x].k # INSTANCE_END_EDITABLE
                    /\ MapHas(rOptions.editableContents, RS.optionals[i].n)
                         => SubSeq(RS.out, p + 1, q - 1)
                              = MapGet(rOptions.editableContents, RS.optionals[i].n)

\* C9, amended: when the editable and repeat markers that survive
\* conditional and optional resolution are well formed and no supplied
\* content carries such a marker, every editable block outside a repeat
\* block becomes an instance editable region holding the caller's content
\* for its name or else its own default content, every editable block
\* inside a repeat block takes the content of the repeat entry instead, and
\* the output has no TemplateBeginEditable.
C9_WellFormedEditableBlocksResolved ==
    (Resolved /\ ~RS.nested /\ WellFormedBlocks(RS.rewritten) /\ CleanContents(rOptions))
        => /\ RS.editables = ExpectedBlocks(RS.rewritten, 1, rOptions.editableContents,
                                            rOptions.repeatEntries)
           /\ WithoutInstanceMarkers(RS.out) = WithoutInstanceMarkers(RS.editables)
           /\ ~HasKind(RS.out, {TEMPLATE_BEGIN_EDITABLE})

\* A well-formed template with an editable block for which the caller
\* supplies content, resolved by the full pipeline.
C9_Witness ==
    /\ Resolved /\ ~RS.nested /\ WellFormedBlocks(RS.rewritten) /\ CleanContents(rOptions)
    /\ HasKind(RS.rewritten, {TEMPLATE_BEGIN_EDITABLE})
    /\ MapHas(rOptions.editableContents, "a")
    /\ HasKind(RS.out, {INSTANCE_BEGIN_EDITABLE})

IfDepth(text, i) ==
    Cardinality({j \in 1..i : text[j].k = TEMPLATE_BEGIN_IF})
    - Cardinality({j \in 1..i : text[j].k = TEMPLATE_END_IF})

ProperlyNestedIfs(text) ==
    /\ \A i \in 1..Len(text) : IfDepth(text, i) >= 0
    /\ IfDepth(text, Len(text)) = 0

\* The TemplateEndIf that closes the TemplateBeginIf at b.
MatchingEndIf(text, b) ==
    MinOf({j \in (b + 1)..Len(text) :
              text[j].k = TEMPLATE_END_IF /\ IfDepth(text, j) = IfDepth(text, b) - 1})

EnclosingIfs(text, i) ==
    {b \in 1..(i - 1) : text[b].k = TEMPLATE_BEGIN_IF /\ MatchingEndIf(text, b) > i}

\* The text left when each piece is kept exactly if all conditions of the
\* blocks around it hold, and every conditional marker is dropped.
NestedConditionalsReference(text, params) ==
    LET kept == SelectSeq(Positions(text), LAMBDA i :
                    /\ text[i].k \notin {TEMPLATE_BEGIN_IF, TEMPLATE_END_IF}
                    /\ \A b \in EnclosingIfs(text, i) :
                          evaluateCondition(ConditionText(text[b].n), params))
    IN  [j \in 1..Len(kept) |-> text[kept[j]]]

\* C10: for a template whose conditional markers are properly nested,
\* conditional resolution keeps a piece of text if and only if the
\* conditions of all blocks enclosing it are true, and leaves no
\* TemplateBeginIf and no TemplateEndIf marker.
C10_NestedConditionalsResolved ==
    (Resolved /\ ~RS.nested /\ ProperlyNestedIfs(RS.stripped))
        => RS.conditionals = NestedConditionalsReference(RS.stripped, RS.mergedParams)

\* ---------------------------------------------------------- condition runs
MaxConditionLen == 4

ConditionPieces ==
    {Word("P"), Doc("P"), Op("=="), Op("!="), Sq("v"), Dq("v"), Ws, Other("&&")}

\* Words and white space are maximal runs, and a word cannot run into an
\* accessor.
ValidCondition(text) ==
    \A i \in 1..(Len(text) - 1) :
        /\ ~(text[i].a = "word" /\ text[i + 1].a \in {"word", "doc"})
        /\ ~(text[i].a = "ws" /\ text[i + 1].a = "ws")

ConditionInputs ==
    {text \in SeqsUpTo(ConditionPieces, MaxConditionLen) : ValidCondition(text)}

ConditionParams ==
    {<<>>, <<Entry("P", "v")>>, <<Entry("P", "true")>>, <<Entry("P", "false")>>}

InitCondition ==
    /\ ParserIdle /\ EngineIdle
    /\ \E params \in ConditionParams :
          rOptions = Options(<<>>, TemplatePath, params, <<>>, <<>>, TRUE, "", <<>>)
    /\ rSteps = <<>> /\ rFirst = <<>> /\ rBetween = FALSE
    /\ lastIndex = [r \in Regexes |-> 0]
    /\ condResult = <<>> /\ rewriteResult = <<>> /\ loop = <<>>

\* One call of evaluateCondition on a condition text.
EvaluateConditionInput ==
    /\ condResult = <<>>
    /\ \E condition \in ConditionInputs :
          condResult' = <<EvaluationOf(condition, rOptions.params)>>
    /\ UNCHANGED <<parserVars, engineVars, rOptions, rSteps, rFirst, rBetween, lastIndex,
                   rewriteResult, loop>>

NextCondition == EvaluateConditionInput

SpecCondition == InitCondition /\ [][NextCondition]_vars

\* --------------------------------------------------------- condition claims
Evaluated == condResult # <<>>
CR == condResult[1]

\* A condition text without its white space.
Solid(text) == SelectSeq(text, LAMBDA piece : piece.a # "ws")

\* Name=='v', Name!='v', _document['Name']=='v', _document['Name']!='v',
\* with single or double quotes.
IsComparison(text) ==
    LET c == Solid(text)
    IN  /\ Len(c) = 3
        /\ c[1].a \in {"word", "doc"} /\ c[2].a = "op" /\ c[3].a \in {"sq", "dq"}

\* _document['Name'] alone or a bare Name alone.
IsTruthiness(text) ==
    LET c == Solid(text)
    IN  Len(c) = 1 /\ c[1].a \in {"word", "doc"}

ValueOrEmpty(params, name) ==
    IF \E i \in 1..Len(params) : params[i].key = name
    THEN (CHOOSE e \in {params[i] : i \in 1..Len(params)} : e.key = name).val
    ELSE ""

\* C11: on a comparison form evaluateCondition compares the raw value of
\* the named parameter (the empty string when unset) with the quoted text,
\* for equality or inequality; on _document['Name'] alone and on a bare
\* Name alone it is true exactly when the value is the string "true".
C11_RecognisedForms ==
    Evaluated =>
        /\ IsComparison(CR.condition) =>
              LET c == Solid(CR.condition)
                  same == ValueOrEmpty(CR.params, c[1].s) = c[3].s
              IN  CR.value = (IF c[2].s = "==" THEN same ELSE ~same)
        /\ IsTruthiness(CR.condition) =>
              CR.value = (ValueOrEmpty(CR.params, Solid(CR.condition)[1].s) = "true")

\* An inequality in accessor form with a double-quoted text, evaluated to
\* false because the parameter has that value.
C11_Witness ==
    /\ Evaluated /\ IsComparison(CR.condition)
    /\ Solid(CR.condition) = <<Doc("P"), Op("!="), Dq("v")>>
    /\ CR.params = <<Entry("P", "v")>>
    /\ CR.value = FALSE

\* C12: evaluateCondition is true, for every parameter map, on every
\* condition text that is not exactly one comparison, one accessor or one
\* bare identifier.
C12_UnrecognisedIsTrue ==
    (Evaluated /\ ~IsComparison(CR.condition) /\ ~IsTruthiness(CR.condition))
        => CR.value = TRUE

\* ---------------------------------------------------------- parameter runs
MaxDeclarations == 3

\* Declaration lines of a template's head.
DeclarationAlphabet ==
    {Tok(TEMPLATE_PARAM_RE, "P", "text", "v"), Tok(TEMPLATE_PARAM_RE, "P", "color", "true"),
     Tok(TEMPLATE_PARAM_RE, "Q", "boolean", "true"), Tab, Newline}

\* A body that uses the parameters in a conditional, an optional region and
\* a variable, before the closing head tag.
ParameterBody ==
    <<Named(TEMPLATE_BEGIN_IF, "Q"), Ch, Mk(TEMPLATE_END_IF),
      Named(TEMPLATE_BEGIN_OPTIONAL, "Q"), PlainY, Mk(TEMPLATE_END_OPTIONAL),
      Named(TEMPLATE_VARIABLE, "P"), Mk(HEAD_CLOSE)>>

ParameterInputs ==
    {Options(decls \o ParameterBody, TemplatePath, params, types, <<>>, TRUE, "", <<>>) :
        decls \in SeqsUpTo(DeclarationAlphabet, MaxDeclarations),
        params \in {<<>>, <<Entry("P", "c")>>, <<Entry("Q", "false")>>,
                    <<Entry("Q", "false"), Entry("P", "c")>>},
        types \in {<<>>, <<Entry("P", "URL")>>}}

InitParameters ==
    /\ ParserIdle /\ EngineIdle
    /\ rOptions \in ParameterInputs
    /\ rSteps = <<>> /\ rFirst = <<>> /\ rBetween = FALSE
    /\ lastIndex = [r \in Regexes |-> 0]
    /\ condResult = <<>> /\ rewriteResult = <<>> /\ loop = <<>>

SpecParameters == InitParameters /\ [][NextResolve]_vars

\* -------------------------------------------------------- parameter claims
\* The TemplateParam declarations of a text, in order.
Declarations(text) == SelectSeq(text, LAMBDA tok : tok.k = TEMPLATE_PARAM_RE)

\* The caller's entries, then for every other declared name its last
\* declaration.
OverlaidMap(decls, callerMap, field) ==
    LET last == SelectSeq(Positions(decls), LAMBDA i :
                    /\ ~MapHas(callerMap, decls[i].n)
                    /\ \A j \in (i + 1)..Len(decls) : decls[j].n # decls[i].n)
    IN  callerMap \o [j \in 1..Len(last) |-> Entry(decls[last[j]].n, decls[last[j]][field])]

ExpectedParams(options) ==
    OverlaidMap(Declarations(options.templateText), options.params, "v")

ExpectedTypes(options) ==
    OverlaidMap(Declarations(options.templateText), options.paramTypes, "t")

SameMap(m1, m2) ==
    /\ {m1[i].key : i \in 1..Len(m1)} = {m2[i].key : i \in 1..Len(m2)}
    /\ \A i \in 1..Len(m1) : m1[i].val = ValueOrEmpty(m2, m1[i].key)
    /\ Cardinality({m1[i].key : i \in 1..Len(m1)}) = Len(m1)

\* C13: in the full pipeline the merged parameters hold every TemplateParam
\* default overlaid by the caller's params, the caller winning (likewise
\* the types); conditionals, optional regions, variables and InstanceParam
\* markers use these values; no TemplateParam declaration is in the output.
C13_MergedParameters ==
    (Resolved /\ ~RS.nested) =>
        /\ SameMap(RS.mergedParams, ExpectedParams(rOptions))
        /\ SameMap(RS.mergedTypes, ExpectedTypes(rOptions))
        /\ RS.conditionals = resolveConditionals(RS.stripped, ExpectedParams(rOptions))
        /\ RS.optionals = resolveOptionalRegions(RS.conditionals, ExpectedParams(rOptions))
        /\ RS.variables = resolveVariables(RS.optionals, ExpectedParams(rOptions))
        /\ \A i \in 1..Len(RS.out) :
              RS.out[i].k = INSTANCE_PARAM =>
                 /\ MapHas(ExpectedParams(rOptions), RS.out[i].n)
                 /\ RS.out[i].v = ValueOrEmpty(ExpectedParams(rOptions), RS.out[i].n)
        /\ ~HasKind(RS.out, {TEMPLATE_PARAM_RE})

\* A template that declares P twice and Q once, resolved with the caller
\* overriding Q only.
C13_Witness ==
    /\ Resolved /\ ~RS.nested
    /\ Len(Declarations(rOptions.templateText)) = 3
    /\ rOptions.params = <<Entry("Q", "false")>>
    /\ MapHas(RS.mergedParams, "P") /\ MapGet(RS.mergedParams, "Q") = "false"
    /\ HasKind(RS.out, {INSTANCE_PARAM})

\* ----------------------------------------------------------- optional runs
\* Templates of optional blocks, with a declared default for Q.
OptionalBlockAlphabet ==
    {Ch, Named(TEMPLATE_BEGIN_OPTIONAL, "P"), Named(TEMPLATE_BEGIN_OPTIONAL, "Q"),
     Mk(TEMPLATE_END_OPTIONAL), Tok(TEMPLATE_PARAM_RE, "Q", "boolean", "false")}

OptionalInputs ==
    {Options(text, TemplatePath, params, <<>>, <<>>, TRUE, "", <<>>) :
        text \in SeqsUpTo(OptionalBlockAlphabet, MaxTemplateLen),
        params \in {<<>>, <<Entry("P", "true")>>, <<Entry("P", "false"), Entry("Q", "true")>>,
                    <<Entry("Q", "yes")>>}}

InitOptional ==
    /\ ParserIdle /\ EngineIdle
    /\ rOptions \in OptionalInputs
    /\ rSteps = <<>> /\ rFirst = <<>> /\ rBetween = FALSE
    /\ lastIndex = [r \in Regexes |-> 0]
    /\ condResult = <<>> /\ rewriteResult = <<>> /\ loop = <<>>

SpecOptional == InitOptional /\ [][NextResolve]_vars

\* --------------------------------------------------------- optional claims
CountKind(text, kind) == Cardinality({i \in 1..Len(text) : text[i].k = kind})

\* What optional resolution makes of a text, a block being a begin marker
\* with the first end marker after it: a block whose parameter is unset or
\* "true" becomes its content in instance optional markers, any other
\* block goes, everything else stays.
RECURSIVE ExpectedOptionals(_, _, _)
ExpectedOptionals(text, i, params) ==
    IF i > Len(text) THEN <<>>
    ELSE IF /\ text[i].k = TEMPLATE_BEGIN_OPTIONAL
            /\ \E j \in (i + 1)..Len(text) : text[j].k = TEMPLATE_END_OPTIONAL
    THEN LET j == NextOfKind(text, i, TEMPLATE_END_OPTIONAL)
             n == text[i].n
             visible == (\A e \in 1..Len(params) : params[e].key # n)
                        \/ ValueOrEmpty(params, n) = "true"
         IN  (IF visible
              THEN <<Named(INSTANCE_BEGIN_OPTIONAL, n)>> \o SubSeq(text, i + 1, j - 1)
                   \o <<Mk(INSTANCE_END_OPTIONAL)>>
              ELSE <<>>)
             \o ExpectedOptionals(text, j + 1, params)
    ELSE <<text[i]>> \o ExpectedOptionals(text, i + 1, params)

\* Begin and end markers alternate: every block is closed before the next
\* one begins and no marker is left over.
OptionalsAlternate(text) ==
    LET ms == SelectSeq(text, LAMBDA tok :
                  tok.k \in {TEMPLATE_BEGIN_OPTIONAL, TEMPLATE_END_OPTIONAL})
    IN  /\ Len(ms) % 2 = 0
        /\ \A i \in 1..Len(ms) :
              ms[i].k = (IF i % 2 = 1 THEN TEMPLATE_BEGIN_OPTIONAL
                         ELSE TEMPLATE_END_OPTIONAL)

PlaceholderUrl == Url("relative", 0, <<"a.css">>, "", "P")

\* Templates of placeholders, also inside an optional block and inside an
\* attribute URL, with a declared default for Q.
VariableAlphabet ==
    {Named(TEMPLATE_VARIABLE, "P"), Named(TEMPLATE_VARIABLE, "_document['Q']"),
     Named(TEMPLATE_BEGIN_OPTIONAL, "O"), Mk(TEMPLATE_END_OPTIONAL),
     Tok(TEMPLATE_PARAM_RE, "Q", "text", "d"), AttrUrl(PlaceholderUrl)}

VariableInputs ==
    {Options(text, TemplatePath, params, <<>>, <<>>, TRUE, "", <<>>) :
        text \in SeqsUpTo(VariableAlphabet, MaxTemplateLen),
        params \in {<<>>, <<Entry("P", "v")>>,
                    <<Entry("P", "@@(Q)@@"), Entry("Q", "z")>>,
                    <<Entry("P", ""), Entry("O", "false")>>}}

InitVariables ==
    /\ ParserIdle /\ EngineIdle
    /\ rOptions \in VariableInputs
    /\ rSteps = <<>> /\ rFirst = <<>> /\ rBetween = FALSE
    /\ lastIndex = [r \in Regexes |-> 0]
    /\ condResult = <<>> /\ rewriteResult = <<>> /\ loop = <<>>

SpecVariables == InitVariables /\ [][NextResolve]_vars

\* --------------------------------------------------------- variable claims
\* The parameter a placeholder of the forms @@(Name)@@ and
\* @@(_document['Name'])@@ names.
PlaceholderName(expr) ==
    CASE expr = "_document['P']" -> "P"
      [] expr = "_document['Q']" -> "Q"
      [] OTHER -> expr

\* The value as it is written: a value that spells a placeholder is that
\* placeholder, left as it is.
Literal(value) ==
    CASE value = "" -> <<>>
      [] value = "@@(P)@@" -> <<Named(TEMPLATE_VARIABLE, "P")>>
      [] value = "@@(Q)@@" -> <<Named(TEMPLATE_VARIABLE, "Q")>>
      [] OTHER -> <<Named(PLAIN, value)>>

\* The text with every placeholder outside attribute URLs replaced by the
\* literal value of its parameter; attribute URLs are left out.
RECURSIVE ExpectedVariables(_, _, _)
ExpectedVariables(text, i, params) ==
    IF i > Len(text) THEN <<>>
    ELSE (IF text[i].k = TEMPLATE_VARIABLE
          THEN Literal(ValueOrEmpty(params, PlaceholderName(text[i].n)))
          ELSE IF text[i].k = ATTR_URL_RE THEN <<>>
          ELSE <<text[i]>>)
         \o ExpectedVariables(text, i + 1, params)

WithoutUrls(text) == SelectSeq(text, LAMBDA tok : tok.k # ATTR_URL_RE)

\* The placeholders a text holds, in and outside attribute URLs.
CountPlaceholders(text) ==
    Cardinality({i \in 1..Len(text) :
        \/ text[i].k = TEMPLATE_VARIABLE
        \/ text[i].k = ATTR_URL_RE /\ text[i].n.var # ""})

\* The placeholders of a text whose parameter value spells a placeholder.
CountCarried(text, params) ==
    Cardinality({i \in 1..Len(text) :
        /\ \/ text[i].k = TEMPLATE_VARIABLE
           \/ text[i].k = ATTR_URL_RE /\ text[i].n.var # ""
        /\ LET name == IF text[i].k = TEMPLATE_VARIABLE THEN PlaceholderName(text[i].n)
                       ELSE text[i].n.var
           IN  ValueOrEmpty(params, name) \in {"@@(P)@@", "@@(Q)@@"}})

\* C15: in the full pipeline every placeholder of the template text that
\* survives conditional and optional resolution is replaced by the merged
\* value of its parameter, or by nothing when the parameter is unset, so
\* the only placeholders left are those that parameter values carry, which
\* are inserted literally and not expanded again.
C15_VariablesSubstituted ==
    (Resolved /\ ~RS.nested) =>
        /\ WithoutUrls(RS.variables)
             = ExpectedVariables(RS.optionals, 1, ExpectedParams(rOptions))
        /\ CountPlaceholders(RS.variables)
             = CountCarried(RS.optionals, ExpectedParams(rOptions))
        /\ CountPlaceholders(RS.out) = CountPlaceholders(RS.variables)

\* A template with the placeholder of P, resolved with a value of P that
\* spells the placeholder of Q while Q has a value.
C15_Witness ==
    /\ Resolved /\ ~RS.nested
    /\ rOptions.params = <<Entry("P", "@@(Q)@@"), Entry("Q", "z")>>
    /\ HasKind(RS.optionals, {TEMPLATE_VARIABLE})
    /\ Named(TEMPLATE_VARIABLE, "Q") \in {RS.out[i] : i \in 1..Len(RS.out)}
    /\ Named(TEMPLATE_VARIABLE, "P") \in {RS.optionals[i] : i \in 1..Len(RS.optionals)}

\* ------------------------------------------------------------- repeat runs
\* A repeat block of an editable block with default content, between text
\* and followed by an editable block of the same name outside it.
RepeatPage ==
    <<Ch, Named(TEMPLATE_BEGIN_REPEAT, "r"), Named(TEMPLATE_BEGIN_EDITABLE, "a"), Ch,
      Mk(TEMPLATE_END_EDITABLE), Ch, Mk(TEMPLATE_END_REPEAT),
      Named(TEMPLATE_BEGIN_EDITABLE, "a"), Ch, Mk(TEMPLATE_END_EDITABLE)>>

\* No entry list, an empty one, one entry, two entries with contents of
\* their own, two entries of which the second has no content for the block.
RepeatEntryLists ==
    {<<>>, <<Entry("r", <<>>)>>,
     <<Entry("r", << <<Entry("a", <<PlainZ>>)>> >>)>>,
     <<Entry("r", << <<Entry("a", <<PlainY>>)>>, <<Entry("a", <<PlainZ>>)>> >>)>>,
     <<Entry("r", << <<Entry("a", <<PlainZ>>)>>, <<>> >>)>>}

RepeatInputs ==
    {Options(text, TemplatePath, <<>>, <<>>, contents, TRUE, "", entries) :
        text \in SeqsUpTo(EditAlphabet, MaxTemplateLen) \cup {RepeatPage},
        contents \in {<<>>, <<Entry("a", <<PlainY>>)>>},
        entries \in RepeatEntryLists}

InitRepeat ==
    /\ ParserIdle /\ EngineIdle
    /\ rOptions \in RepeatInputs
    /\ rSteps = <<>> /\ rFirst = <<>> /\ rBetween = FALSE
    /\ lastIndex = [r \in Regexes |-> 0]
    /\ condResult = <<>> /\ rewriteResult = <<>> /\ loop = <<>>

SpecRepeat == InitRepeat /\ [][NextResolve]_vars

\* ----------------------------------------------------------- repeat claims
\* The entries supplied for a repeat block, or one entry without contents.
EntryListOf(entries, name) ==
    IF MapHas(entries, name) /\ MapGet(entries, name) # <<>>
    THEN MapGet(entries, name) ELSE << <<>> >>

\* A block's text with each editable block of it turned into an instance
\* editable region of the entry's content for its name, or else its own.
RECURSIVE BlockWithContents(_, _, _)
BlockWithContents(block, i, contents) ==
    IF i > Len(block) THEN <<>>
    ELSE IF /\ block[i].k = TEMPLATE_BEGIN_EDITABLE
            /\ \E j \in (i + 1)..Len(block) : block[j].k = TEMPLATE_END_EDITABLE
    THEN LET j == NextOfKind(block, i, TEMPLATE_END_EDITABLE)
         IN  <<Named(INSTANCE_BEGIN_EDITABLE, block[i].n)>>
             \o (IF MapHas(contents, block[i].n) THEN MapGet(contents, block[i].n)
                 ELSE SubSeq(block, i + 1, j - 1))
             \o <<Mk(INSTANCE_END_EDITABLE)>>
             \o BlockWithContents(block, j + 1, contents)
    ELSE <<block[i]>> \o BlockWithContents(block, i + 1, contents)

\* One entry pair per entry of the list, in the order of the list.
RECURSIVE ExpectedEntries(_, _, _)
ExpectedEntries(block, list, e) ==
    IF e > Len(list) THEN <<>>
    ELSE <<Mk(INSTANCE_BEGIN_REPEAT_ENTRY)>> \o BlockWithContents(block, 1, list[e])
         \o <<Mk(INSTANCE_END_REPEAT_ENTRY)>> \o ExpectedEntries(block, list, e + 1)

\* The repeat block that begins at i appears in the output as one instance
\* repeat region of its name holding exactly the expected entries.
RepeatBlockResolved(text, i, out, entries) ==
    LET j == NextOfKind(text, i, TEMPLATE_END_REPEAT)
        expected == ExpectedEntries(SubSeq(text, i + 1, j - 1),
                                    EntryListOf(entries, text[i].n), 1)
    IN  \E p \in 1..Len(out) : \E q \in (p + 1)..Len(out) :
           /\ out[p] = Named(INSTANCE_BEGIN_REPEAT, text[i].n)
           /\ out[q].k = INSTANCE_END_REPEAT
           /\ \A x \in (p + 1)..(q - 1) : out[x].k # INSTANCE_END_REPEAT
           /\ SubSeq(out, p + 1, q - 1) = expected

\* The positions where a repeat block begins: a begin marker with an end
\* marker after it.
RepeatBlocks(text) ==
    {i \in 1..Len(text) :
        /\ text[i].k = TEMPLATE_BEGIN_REPEAT
        /\ \E j \in (i + 1)..Len(text) : text[j].k = TEMPLATE_END_REPEAT}

\* The entries all repeat blocks of a text are to have.
RECURSIVE SumEntries(_, _, _)
SumEntries(text, blocks, entries) ==
    IF blocks = {} THEN 0
    ELSE LET i == MinOf(blocks)
         IN  Len(EntryListOf(entries, text[i].n)) + SumEntries(text, blocks \ {i}, entries)

\* C16 as stated: every repeat block appears in the output as one instance
\* repeat region of its name holding one entry pair per supplied entry, in
\* the order supplied, the i-th wrapping the block resolved with the i-th
\* entry's contents, and one entry of the default content when no entry is
\* supplied; the output holds no other entry pairs.
C16_EveryRepeatBlockResolved ==
    (Resolved /\ ~RS.nested) =>
        /\ \A i \in RepeatBlocks(RS.rewritten) :
              RepeatBlockResolved(RS.rewritten, i, RS.out, rOptions.repeatEntries)
        /\ CountKind(RS.out, INSTANCE_BEGIN_REPEAT_ENTRY)
             = SumEntries(RS.rewritten, RepeatBlocks(RS.rewritten), rOptions.repeatEntries)
        /\ CountKind(RS.out, INSTANCE_END_REPEAT_ENTRY)
             = CountKind(RS.out, INSTANCE_BEGIN_REPEAT_ENTRY)

\* C16, amended: when the editable and repeat markers that reach repeat
\* resolution are well formed and no supplied content carries such a
\* marker, every repeat block appears in the output as one instance repeat
\* region of its name holding one entry pair per supplied entry, in the
\* order supplied, the i-th wrapping the block resolved with the i-th
\* entry's contents and the block's default content where that entry has
\* none, and one entry of the default content when no entry is supplied;
\* the output holds no other entry pairs.
C16_WellFormedRepeatBlocksResolved ==
    (Resolved /\ ~RS.nested /\ WellFormedBlocks(RS.rewritten) /\ CleanContents(rOptions)) =>
        /\ \A i \in RepeatBlocks(RS.rewritten) :
              RepeatBlockResolved(RS.rewritten, i, RS.out, rOptions.repeatEntries)
        /\ CountKind(RS.out, INSTANCE_BEGIN_REPEAT_ENTRY)
             = SumEntries(RS.rewritten, RepeatBlocks(RS.rewritten), rOptions.repeatEntries)
        /\ CountKind(RS.out, INSTANCE_END_REPEAT_ENTRY)
             = CountKind(RS.out, INSTANCE_BEGIN_REPEAT_ENTRY)

\* A well-formed repeat block of one editable block, resolved with two
\* entries whose contents differ: the output holds both, in their order.
C16_Witness ==
    /\ Resolved /\ ~RS.nested /\ WellFormedBlocks(RS.rewritten)
    /\ rOptions.templateText = RepeatPage
    /\ rOptions.repeatEntries
         = <<Entry("r", << <<Entry("a", <<PlainY>>)>>, <<Entry("a", <<PlainZ>>)>> >>)>>
    /\ \E p \in 1..Len(RS.out) : \E q \in (p + 1)..Len(RS.out) :
          RS.out[p] = PlainY /\ RS.out[q] = PlainZ
    /\ CountKind(RS.out, INSTANCE_BEGIN_REPEAT_ENTRY) = 2

\* ------------------------------------------------------------ rewrite runs
\* Relative URLs: up to two leading "../", a path below that of a page or
\* of a directory (none for the directory the "../" lead to), a suffix.
RelativeUrls ==
    {Url("relative", ups, segs, sfx, "") :
        ups \in 0..2, segs \in {<<>>, <<"a">>, <<"a", "b">>, <<"css", "s.css">>},
        sfx \in {"", "?q", "#f"}}
    \ {Url("relative", 0, <<>>, sfx, "") : sfx \in {"", "?q", "#f"}}

TemplatePaths == {TemplatePath, "/a/b/T.dwt"}

RewriteInputs ==
    {Options(<<Ch, AttrUrl(url)>>, path, <<>>, <<>>, <<>>, TRUE, instancePath, <<>>) :
        url \in RelativeUrls, path \in TemplatePaths, instancePath \in InstancePaths}

InitRewrite ==
    /\ ParserIdle /\ EngineIdle
    /\ rOptions \in RewriteInputs
    /\ rSteps = <<>> /\ rFirst = <<>> /\ rBetween = FALSE
    /\ lastIndex = [r \in Regexes |-> 0]
    /\ condResult = <<>> /\ rewriteResult = <<>> /\ loop = <<>>

\* A direct call of rewriteRelativePaths with the paths of the options.
RewriteInput ==
    /\ rewriteResult = <<>>
    /\ rewriteResult' =
          <<rewriteRelativePaths(rOptions.templateText, rOptions.templatePath,
                                 rOptions.instancePath)>>
    /\ lastIndex' =
          IF Dirname(rOptions.templatePath) # Dirname(rOptions.instancePath)
          THEN [lastIndex EXCEPT !["ATTR_URL_RE"] = 0] ELSE lastIndex
    /\ UNCHANGED <<parserVars, engineVars, rOptions, rSteps, rFirst, rBetween, condResult, loop>>

NextRewrite == RewriteInput

SpecRewrite == InitRewrite /\ [][NextRewrite]_vars

\* ---------------------------------------------------------- rewrite claims
Rewritten == rewriteResult # <<>>

\* The file name of a document path.
Basename(p) ==
    CASE p = "/index.html" -> "index.html"
      [] p \in {"/Templates/p.html", "/a/p.html", "/a/b/p.html"} -> "p.html"
      [] OTHER -> "T.dwt"

\* The site-absolute target a URL written in the document at docPath refers
\* to (RFC 3986, 5.2): a URL without a path refers to the document itself,
\* a relative path is taken from the document's directory, each leading
\* "../" leaving one directory and none leaving the site root. A trailing
\* "/" of the target is not told apart.
TargetOf(docPath, url) ==
    LET dir == Dirname(docPath)
    IN  IF url.form \in {"empty", "fragment", "query"}
        THEN dir \o <<Basename(docPath)>>
        ELSE SubSeq(dir, 1, IF url.ups >= Len(dir) THEN 0 ELSE Len(dir) - url.ups)
             \o url.segs

\* C17: every relative URL that rewriteRelativePaths rewrites refers, read
\* from the instance document, to the same site-absolute target as the
\* original read from the template, and keeps its query/fragment suffix;
\* also when the target is the instance's own directory or an ancestor.
C17_SameTarget ==
    Rewritten =>
        \A i \in 1..Len(rOptions.templateText) :
           (/\ rOptions.templateText[i].k = ATTR_URL_RE
            /\ rOptions.templateText[i].n.form = "relative"
            /\ Dirname(rOptions.templatePath) # Dirname(rOptions.instancePath))
           => /\ TargetOf(rOptions.instancePath, rewriteResult[1][i].n)
                  = TargetOf(rOptions.templatePath, rOptions.templateText[i].n)
              /\ rewriteResult[1][i].n.sfx = rOptions.templateText[i].n.sfx

\* ---------------------------------------------------------------- URL runs
\* URLs that rewriteRelativePaths skips: "/css/s.css", "https://css/s.css",
\* "#f", "?q", "@@(P)@@/a.css"; and one that it rewrites.
SkippedUrls ==
    {Url("root", 0, <<"css", "s.css">>, "", ""), Url("scheme", 0, <<"css", "s.css">>, "", ""),
     Url("fragment", 0, <<>>, "#f", ""), Url("query", 0, <<>>, "?q", ""), PlaceholderUrl}

UrlAlphabet == {AttrUrl(url) : url \in SkippedUrls \cup {StylesheetUrl}}

MaxUrls == 2

UrlInputs ==
    {Options(text, path, params, <<>>, <<>>, TRUE, instancePath, <<>>) :
        text \in SeqsUpTo(UrlAlphabet, MaxUrls), path \in TemplatePaths,
        params \in {<<>>, <<Entry("P", "v")>>}, instancePath \in InstancePaths}

InitUrls ==
    /\ ParserIdle /\ EngineIdle
    /\ rOptions \in UrlInputs
    /\ rSteps = <<>> /\ rFirst = <<>> /\ rBetween = FALSE
    /\ lastIndex = [r \in Regexes |-> 0]
    /\ condResult = <<>> /\ rewriteResult = <<>> /\ loop = <<>>

SpecUrls == InitUrls /\ [][NextResolve]_vars

\* -------------------------------------------------------------- URL claims
UrlsOf(text) == SelectSeq(text, LAMBDA tok : tok.k = ATTR_URL_RE)

\* C18: resolved with an instance path, a root-relative, scheme-qualified,
\* fragment-only or query-only attribute URL of the template text, and one
\* that contains a placeholder, is not path-rewritten: in the output it is
\* as the template writes it, with the placeholder replaced by the
\* parameter's value.
C18_SkippedUrlsKept ==
    (Resolved /\ ~RS.nested /\ rOptions.instancePath # "") =>
        /\ Len(RS.variables) = Len(rOptions.templateText)
        /\ UrlsOf(RS.out) = UrlsOf(RS.rewritten)
        /\ \A i \in 1..Len(rOptions.templateText) :
              rOptions.templateText[i].n \in SkippedUrls
              => RS.rewritten[i] = RS.variables[i]

\* ------------------------------------------------------------- marker runs
\* A closing html tag in upper case.
UpperHtmlClose == Named(HTML_CLOSE, "</HTML>")

\* Pages of the tags the markers are placed at, a parameter declaration,
\* text and white space.
MarkerAlphabet ==
    {Mk(HTML_OPEN), Mk(HEAD_CLOSE), Mk(HTML_CLOSE), UpperHtmlClose, Newline, Ch,
     Tok(TEMPLATE_PARAM_RE, "P", "text", "d")}

UpperPage ==
    <<Named(HTML_OPEN, "<HTML>"), Named(HEAD_CLOSE, "</HEAD>"), Ch, UpperHtmlClose, Newline>>

MaxPageLen == 3

MarkerInputs ==
    {Options(text, TemplatePath, params, types, <<>>, locked, "", <<>>) :
        text \in SeqsUpTo(MarkerAlphabet, MaxPageLen) \cup {TemplatePage, UpperPage},
        params \in {<<>>, <<Entry("Q", "z"), Entry("P", "v")>>},
        types \in {<<>>, <<Entry("Q", "number")>>}, locked \in BOOLEAN}

InitMarkers ==
    /\ ParserIdle /\ EngineIdle
    /\ rOptions \in MarkerInputs
    /\ rSteps = <<>> /\ rFirst = <<>> /\ rBetween = FALSE
    /\ lastIndex = [r \in Regexes |-> 0]
    /\ condResult = <<>> /\ rewriteResult = <<>> /\ loop = <<>>

SpecMarkers == InitMarkers /\ [][NextResolve]_vars

\* ----------------------------------------------------------- marker claims
PositionsOf(text, kind) == {i \in 1..Len(text) : text[i].k = kind}

LastOf(positions) == CHOOSE i \in positions : \A j \in positions : j <= i

\* The names of the merged map in its iteration order: the declared names
\* in the order of their first declaration, then the caller's other names.
MergedOrder(options) ==
    LET decls == Declarations(options.templateText)
        firsts == SelectSeq(Positions(decls), LAMBDA i :
                      \A j \in 1..(i - 1) : decls[j].n # decls[i].n)
        others == SelectSeq(options.params, LAMBDA e :
                      \A i \in 1..Len(decls) : decls[i].n # e.key)
    IN  [j \in 1..Len(firsts) |-> decls[firsts[j]].n]
        \o [j \in 1..Len(others) |-> others[j].key]

\* One InstanceParam marker per merged parameter, in the map's order.
ExpectedParamMarkers(options) ==
    LET names == MergedOrder(options)
        params == ExpectedParams(options)
        types == ExpectedTypes(options)
    IN  [i \in 1..Len(names) |->
            Tok(INSTANCE_PARAM, names[i],
                IF ValueOrEmpty(types, names[i]) # ""
                THEN ValueOrEmpty(types, names[i]) ELSE "text",
                ValueOrEmpty(params, names[i]))]

\* C19: for a page with an opening html tag, a closing head tag and a
\* closing html tag, the output of the full pipeline has exactly one
\* InstanceBegin declaration, of the template path and the lock flag, right
\* after the first opening html tag; exactly one InstanceParam marker per
\* merged parameter, in the merged map's order, before the closing head
\* tag; and an InstanceEnd marker right before the final closing html tag.
C19_MarkersInserted ==
    (/\ Resolved /\ ~RS.nested
     /\ PositionsOf(RS.editables, HTML_OPEN) # {}
     /\ PositionsOf(RS.editables, HEAD_CLOSE) # {}
     /\ PositionsOf(RS.editables, HTML_CLOSE) # {})
    => /\ CountKind(RS.out, INSTANCE_BEGIN) = 1
       /\ RS.out[MinOf(PositionsOf(RS.out, HTML_OPEN)) + 1]
            = Tok(INSTANCE_BEGIN, rOptions.templatePath, "",
                  IF rOptions.codeOutsideHTMLIsLocked THEN "true" ELSE "false")
       /\ SelectSeq(RS.out, LAMBDA tok : tok.k = INSTANCE_PARAM)
            = ExpectedParamMarkers(rOptions)
       /\ \A i \in PositionsOf(RS.out, INSTANCE_PARAM) :
             i < MinOf(PositionsOf(RS.out, HEAD_CLOSE))
       /\ CountKind(RS.out, INSTANCE_END) = 1
       /\ LET last == LastOf(PositionsOf(RS.out, HTML_CLOSE))
          IN  last > 1 /\ RS.out[last - 1] = Mk(INSTANCE_END)

\* ------------------------------------------------------------- nested runs
BaseDeclaration == Tok(INSTANCE_BEGIN, "/Templates/Base.dwt", "", "true")

\* What a nested template holds after its InstanceBegin declaration.
NestedAlphabet ==
    {Named(INSTANCE_BEGIN_EDITABLE, "a"), Mk(INSTANCE_END_EDITABLE),
     Tok(INSTANCE_PARAM, "P", "text", "v"), Named(TEMPLATE_VARIABLE, "P"),
     AttrUrl(StylesheetUrl), Named(TEMPLATE_BEGIN_EDITABLE, "b"), Mk(HEAD_CLOSE)}

\* A nested template with every construct of the full pipeline in it.
NestedFullPage ==
    <<Mk(HTML_OPEN), BaseDeclaration, Tok(TEMPLATE_PARAM_RE, "Q", "text", "d"),
      Tok(INSTANCE_PARAM, "P", "text", "v"), AttrUrl(PlaceholderUrl), Mk(HEAD_CLOSE),
      Named(TEMPLATE_BEGIN_IF, "P"), Ch, Mk(TEMPLATE_END_IF),
      Named(TEMPLATE_BEGIN_OPTIONAL, "O"), Mk(TEMPLATE_END_OPTIONAL),
      Named(TEMPLATE_BEGIN_REPEAT, "r"), Mk(TEMPLATE_END_REPEAT),
      Named(TEMPLATE_BEGIN_EDITABLE, "b"), Mk(TEMPLATE_END_EDITABLE),
      Named(TEMPLATE_VARIABLE, "P"), Named(INSTANCE_BEGIN_EDITABLE, "a"), Ch,
      Mk(INSTANCE_END_EDITABLE), Mk(HTML_CLOSE), Newline>>

MaxNestedLen == 3

NestedInputs ==
    {Options(text, TemplatePath, params, <<>>, contents, TRUE, instancePath, <<>>) :
        text \in {<<BaseDeclaration>> \o rest :
                     rest \in SeqsUpTo(NestedAlphabet, MaxNestedLen)}
                 \cup {NestedTemplatePage, NestedFullPage},
        params \in {<<>>, <<Entry("P", "w")>>},
        contents \in {<<>>, <<Entry("a", <<PlainY, Tok(INSTANCE_PARAM, "P", "text", "u")>>)>>,
                      <<Entry("b", <<PlainZ>>)>>},
        instancePath \in {"", "/index.html"}}

InitNested ==
    /\ ParserIdle /\ EngineIdle
    /\ rOptions \in NestedInputs
    /\ rSteps = <<>> /\ rFirst = <<>> /\ rBetween = FALSE
    /\ lastIndex = [r \in Regexes |-> 0]
    /\ condResult = <<>> /\ rewriteResult = <<>> /\ loop = <<>>

SpecNested == InitNested /\ [][NextResolve]_vars

\* ----------------------------------------------------------- nested claims
\* The text with the content of each instance-style editable block replaced
\* by the content supplied for its name, if any; everything else as it is.
RECURSIVE ExpectedNested(_, _, _)
ExpectedNested(text, i, contents) ==
    IF i > Len(text) THEN <<>>
    ELSE IF /\ text[i].k = INSTANCE_BEGIN_EDITABLE
            /\ \E j \in (i + 1)..Len(text) : text[j].k = INSTANCE_END_EDITABLE
    THEN LET j == NextOfKind(text, i, INSTANCE_END_EDITABLE)
         IN  <<text[i]>>
             \o (IF MapHas(contents, text[i].n) THEN MapGet(contents, text[i].n)
                 ELSE SubSeq(text, i + 1, j - 1))
             \o <<text[j]>> \o ExpectedNested(text, j + 1, contents)
    ELSE <<text[i]>> \o ExpectedNested(text, i + 1, contents)

\* An InstanceParam marker stays a marker of its name, with the caller's
\* value when the caller has one; any other token stays as it is.
RefreshedFrom(before, after, params) ==
    IF before.k = INSTANCE_PARAM
    THEN /\ after.k = INSTANCE_PARAM /\ after.n = before.n
         /\ MapHas(params, before.n) => after.v = MapGet(params, before.n)
    ELSE after = before

\* Only relative attribute URLs without a placeholder differ, and only when
\* an instance path is given.
OnlyUrlsRewritten(before, after, instancePath) ==
    /\ Len(after) = Len(before)
    /\ \A i \in 1..Len(before) :
          after[i] # before[i]
          => /\ instancePath # "" /\ before[i].k = ATTR_URL_RE /\ after[i].k = ATTR_URL_RE
             /\ before[i].n.form = "relative" /\ before[i].n.var = ""

\* C20: for a template text with an InstanceBegin declaration the pipeline
\* is skipped: the output is the text with relative URLs rewritten (with an
\* instance path), the content of each instance-style editable block
\* replaced by the supplied content for its name (kept when none is
\* supplied) and the InstanceParam markers refreshed; parameter
\* declarations, conditionals, optional, repeat and template-style editable
\* blocks and placeholders stay, and no marker is added.
C20_NestedShortCircuit ==
    (Resolved /\ RS.nested) =>
        LET expected == ExpectedNested(RS.rewritten, 1, rOptions.editableContents)
        IN  /\ OnlyUrlsRewritten(rOptions.templateText, RS.rewritten, rOptions.instancePath)
            /\ Len(RS.out) = Len(expected)
            /\ \A i \in 1..Len(expected) :
                  RefreshedFrom(expected[i], RS.out[i], rOptions.params)

\* The nested template with every construct, resolved with an instance
\* path, content for its instance-style block and a value for its
\* parameter: block and marker change, the constructs are still there.
C20_Witness ==
    /\ Resolved /\ RS.nested
    /\ rOptions.templateText = NestedFullPage
    /\ rOptions.instancePath = "/index.html"
    /\ rOptions.params = <<Entry("P", "w")>>
    /\ MapHas(rOptions.editableContents, "a")
    /\ Tok(INSTANCE_PARAM, "P", "text", "w") \in {RS.out[i] : i \in 1..Len(RS.out)}
    /\ PlainY \in {RS.out[i] : i \in 1..Len(RS.out)}
    /\ HasKind(RS.out, {TEMPLATE_BEGIN_IF}) /\ HasKind(RS.out, {TEMPLATE_VARIABLE})
    /\ CountKind(RS.out, INSTANCE_BEGIN) = 1

\* C25 as stated: when a nested template is resolved, every InstanceParam
\* marker stays where it is with its name; it gets the supplied value when
\* the params map has its name and keeps its own value when not; no marker
\* is added or removed.
C25_AbsentParamsKept ==
    (Resolved /\ RS.nested) =>
        /\ Len(RS.out) = Len(RS.editables)
        /\ \A i \in 1..Len(RS.editables) :
              IF RS.editables[i].k = INSTANCE_PARAM
              THEN /\ RS.out[i].k = INSTANCE_PARAM
                   /\ RS.out[i].n = RS.editables[i].n
                   /\ RS.out[i].v = IF MapHas(rOptions.params, RS.editables[i].n)
                                    THEN MapGet(rOptions.params, RS.editables[i].n)
                                    ELSE RS.editables[i].v
              ELSE RS.out[i].k # INSTANCE_PARAM

\* --------------------------------------------------------------- loop runs
MaxLoopLen == 5

\* Conditional blocks on P, text, and the halves of a marker.
LoopAlphabet ==
    {Ch, Named(TEMPLATE_BEGIN_IF, "P"), Mk(TEMPLATE_END_IF), BeginIfHead, BeginIfTail}

\* Texts as a scan reads them: halves that stand together are a marker.
LoopInputs ==
    {Options(text, TemplatePath, params, <<>>, <<>>, TRUE, "", <<>>) :
        text \in {t \in SeqsUpTo(LoopAlphabet, MaxLoopLen) : JoinMarkers(t, 1) = t},
        params \in {<<>>, <<Entry("P", "true")>>}}

\* resolveConditionals(text, params) is entered: prev = ''.
InitLoop ==
    /\ ParserIdle /\ EngineIdle
    /\ rOptions \in LoopInputs
    /\ rSteps = <<>> /\ rFirst = <<>> /\ rBetween = FALSE
    /\ lastIndex = [r \in Regexes |-> 0]
    /\ condResult = <<>> /\ rewriteResult = <<>>
    /\ loop = <<[text |-> rOptions.templateText, prev |-> <<>>, passes |-> 0,
                 removes |-> TRUE, shorter |-> TRUE]>>

\* One iteration of the while loop of resolveConditionals. The record also
\* keeps whether every pass so far that changed the text took away a
\* TemplateBeginIf marker and none added one, and whether every such pass
\* made the text shorter.
LoopPass ==
    /\ loop # <<>>
    /\ loop[1].prev # loop[1].text
    /\ LET text == loop[1].text
           next == ConditionalPass(text, rOptions.params)
           Begins(t) == Cardinality({i \in 1..Len(t) : t[i].k = TEMPLATE_BEGIN_IF})
       IN  loop' = <<[text |-> next, prev |-> text, passes |-> loop[1].passes + 1,
                      removes |-> /\ loop[1].removes
                                  /\ Begins(next) <= Begins(text)
                                  /\ next # text => Begins(next) < Begins(text),
                      shorter |-> /\ loop[1].shorter
                                  /\ next # text => Len(next) < Len(text)]>>
    /\ lastIndex' = [lastIndex EXCEPT !["TEMPLATE_BEGIN_IF_RE"] = 0]
    /\ UNCHANGED <<parserVars, engineVars, rOptions, rSteps, rFirst, rBetween, condResult,
                   rewriteResult>>

NextLoop == LoopPass

SpecLoop == InitLoop /\ [][NextLoop]_vars

\* ------------------------------------------------------------- loop claims
Looping == loop # <<>>

\* The while condition is false: resolveConditionals returns.
LoopStopped == loop # <<>> /\ loop[1].prev = loop[1].text

\* No TemplateBeginIf marker with a TemplateEndIf marker after it.
NoOpenConditional(text) ==
    \A i \in 1..Len(text) : \A j \in (i + 1)..Len(text) :
       ~(text[i].k = TEMPLATE_BEGIN_IF /\ text[j].k = TEMPLATE_END_IF)

\* C21 as stated: every pass that changes the text takes away at least one
\* TemplateBeginIf marker and none adds one, the loop makes at most (number
\* of TemplateBeginIf markers of the input + 1) passes, and when it stops no
\* TemplateBeginIf marker with a TemplateEndIf marker after it remains.
C21_MarkerCountBound ==
    Looping =>
        /\ loop[1].removes
        /\ loop[1].passes <= CountKind(rOptions.templateText, TEMPLATE_BEGIN_IF) + 1
        /\ LoopStopped => NoOpenConditional(loop[1].text)

\* C21, amended: every pass that changes the text makes it shorter, so the
\* loop makes at most (length of the input + 1) passes, and when it stops
\* the text is the result of resolveConditionals and holds no
\* TemplateBeginIf marker with a TemplateEndIf marker after it.
C21_Terminates ==
    Looping =>
        /\ loop[1].shorter
        /\ loop[1].passes <= Len(rOptions.templateText) + 1
        /\ LoopStopped => /\ NoOpenConditional(loop[1].text)
                          /\ loop[1].text
                               = resolveConditionals(rOptions.templateText, rOptions.params)

\* The loop has stopped after three passes on a text of one TemplateBeginIf
\* marker: the first pass removed a block between the halves of another.
C21_Witness ==
    /\ LoopStopped
    /\ loop[1].passes = 3
    /\ CountKind(rOptions.templateText, TEMPLATE_BEGIN_IF) = 1
    /\ \E i \in 1..Len(rOptions.templateText) : rOptions.templateText[i] = BeginIfHead

\* -------------------------------------------------------------- cache runs
\* ParseCache with two documents.  In these runs docText, docVersion and
\* cache are maps from a document's URI to what the engine runs hold for
\* their one document; lastParseResult is the last getOrParse call (its
\* document, the text it was called on and what it returned), judged the
\* last cache operation with the cache before it (and, for getOrParse,
\* the version of the document).
MaxCacheVersion == 3

Uris == {"file:///a.html", "file:///b.html"}

InitCache ==
    /\ ParserIdle /\ ResolverIdle
    /\ docText \in [Uris -> OpenedDocuments]
    /\ docVersion = [u \in Uris |-> 1]
    /\ cache = [u \in Uris |-> <<>>]
    /\ lastParseResult = <<>> /\ judged = <<>>
    /\ undoStack = <<>> /\ redoStack = <<>>
    /\ activeIsDoc = TRUE /\ enableProtection = TRUE
    /\ isReverting = FALSE /\ isProgrammaticEdit = FALSE
    /\ revertPc = "idle" /\ progPc = "idle" /\ undoSkipped = FALSE

\* The text of a document changes; the editor gives it the next version.
TextChanges ==
    /\ \E u \in Uris : \E text \in OpenedDocuments \cup ResolvedPages :
          /\ docVersion[u] < MaxCacheVersion
          /\ text # docText[u]
          /\ docText' = [docText EXCEPT ![u] = text]
          /\ docVersion' = [docVersion EXCEPT ![u] = @ + 1]
    /\ UNCHANGED <<parserVars, resolverVars, cache, lastParseResult, judged, undoStack,
                   redoStack, activeIsDoc, enableProtection, isReverting,
                   isProgrammaticEdit, revertPc, progPc, undoSkipped>>

\* ParseCache.getOrParse(doc)
GetOrParse ==
    /\ \E u \in Uris :
          LET g == getOrParse(cache[u], docText[u], docVersion[u])
          IN  /\ cache' = [cache EXCEPT ![u] = g.cache]
              /\ lastParseResult' = <<[uri |-> u, text |-> docText[u], result |-> g.result]>>
              /\ judged' = <<[op |-> "getOrParse", uri |-> u, before |-> cache,
                             version |-> docVersion[u]]>>
    /\ UNCHANGED <<parserVars, resolverVars, docText, docVersion, undoStack, redoStack,
                   activeIsDoc, enableProtection, isReverting, isProgrammaticEdit, revertPc,
                   progPc, undoSkipped>>

\* ParseCache.invalidate(uri)
Invalidate ==
    /\ \E u \in Uris :
          /\ cache' = [cache EXCEPT ![u] = <<>>]
          /\ judged' = <<[op |-> "invalidate", uri |-> u, before |-> cache]>>
    /\ UNCHANGED <<parserVars, resolverVars, docText, docVersion, lastParseResult, undoStack,
                   redoStack, activeIsDoc, enableProtection, isReverting,
                   isProgrammaticEdit, revertPc, progPc, undoSkipped>>

\* ParseCache.clear()
Clear ==
    /\ cache' = [u \in Uris |-> <<>>]
    /\ judged' = <<[op |-> "clear", uri |-> "", before |-> cache]>>
    /\ UNCHANGED <<parserVars, resolverVars, docText, docVersion, lastParseResult, undoStack,
                   redoStack, activeIsDoc, enableProtection, isReverting,
                   isProgrammaticEdit, revertPc, progPc, undoSkipped>>

NextCache == TextChanges \/ GetOrParse \/ Invalidate \/ Clear

SpecCache == InitCache /\ [][NextCache]_vars

\* ------------------------------------------------------------ cache claims
CacheRun == DOMAIN cache = Uris

\* C22: getOrParse(doc) returns the parse of the text doc has at the call;
\* an entry of the cache is the result computed last for its document
\* (getOrParse leaves the entries of other documents alone), and
\* invalidate(uri) removes the entry of that document only.
C22_CacheReturnsCurrentParse ==
    CacheRun =>
        /\ lastParseResult # <<>>
              => lastParseResult[1].result = parseDocument(lastParseResult[1].text)
        /\ \A u \in Uris :
              cache[u] # <<>> =>
                 /\ Len(cache[u]) = 1
                 /\ cache[u][1].version <= docVersion[u]
                 /\ cache[u][1].version = docVersion[u]
                       => cache[u][1].result = parseDocument(docText[u])
        /\ judged # <<>> /\ judged[1].op = "invalidate"
              => cache = [judged[1].before EXCEPT ![judged[1].uri] = <<>>]
        /\ judged # <<>> /\ judged[1].op = "getOrParse"
              => /\ \A u \in Uris \ {judged[1].uri} : cache[u] = judged[1].before[u]
                 /\ cache[judged[1].uri]
                      = <<[version |-> judged[1].version,
                           result |-> lastParseResult[1].result]>>

\* getOrParse has run on a document whose text changed after its entry was
\* computed, while the other document has an entry of its own.
C22_Witness ==
    /\ CacheRun
    /\ judged # <<>> /\ judged[1].op = "getOrParse"
    /\ judged[1].before[judged[1].uri] # <<>>
    /\ judged[1].before[judged[1].uri][1].version < judged[1].version
    /\ judged[1].before[judged[1].uri][1].result # lastParseResult[1].result
    /\ \E u \in Uris \ {judged[1].uri} : cache[u] # <<>>

\* ------------------------------------------------------------ library runs
\* Instance pages with a library item outside and inside an editable region.
LibraryItemPage ==
    <<Tok(INSTANCE_BEGIN, "/T.dwt", "", "true"), Named(BEGIN_LIBRARY_ITEM, "/L.lbi"), Ch,
      Mk(END_LIBRARY_ITEM)>>

LibraryItemInEditablePage ==
    <<Tok(INSTANCE_BEGIN, "/T.dwt", "", "true"), Named(INSTANCE_BEGIN_EDITABLE, "a"),
      Named(BEGIN_LIBRARY_ITEM, "/L.lbi"), Ch, Mk(END_LIBRARY_ITEM),
      Mk(INSTANCE_END_EDITABLE)>>

LibraryPages == {LibraryItemPage, LibraryItemInEditablePage}

\* The pages are open in the active editor; initDocument has run.
InitLibrary ==
    /\ pText = <<>> /\ pResult = <<>> /\ rangeCall = <<>>
    /\ docText \in LibraryPages
    /\ docVersion = 1
    /\ undoStack = <<>> /\ redoStack = <<>>
    /\ activeIsDoc = TRUE
    /\ enableProtection = TRUE
    /\ cache = <<[version |-> 1, result |-> parseDocument(docText)]>>
    /\ lastParseResult = <<parseDocument(docText)>>
    /\ isReverting = FALSE /\ isProgrammaticEdit = FALSE
    /\ revertPc = "idle" /\ progPc = "idle"
    /\ judged = <<>> /\ undoSkipped = FALSE
    /\ ResolverIdle

NextLibrary == UserEdit \/ RevertUndoRuns \/ RevertFinishes

SpecLibrary == InitLibrary /\ [][NextLibrary]_vars

\* ---------------------------------------------------------- library claims
\* C23 as stated: the content range of every library item of the document
\* is one of the protected ranges of its parse, and a user edit with a
\* change inside the content range of a library item of an instance page is
\* judged a violation and its undo is issued, also when the library item
\* lies inside the content range of an editable region.
C23_LibraryItemsLocked ==
    /\ \A j \in 1..Len(parseDocument(docText).libraryItems) :
          \E r \in 1..Len(parseDocument(docText).protectedRegions) :
              parseDocument(docText).protectedRegions[r].range
                 = parseDocument(docText).libraryItems[j].contentRange
    /\ (/\ judged # <<>>
        /\ judged[1].fresh
        /\ judged[1].inLibraryItem
        /\ parseDocument(judged[1].pre).templateDeclaration # <<>>)
          => judged[1].violation /\ judged[1].undoIssued

\* ------------------------------------------------------------ content runs
\* A template with a top-level editable region a and a repeat region r of
\* one editable region b.
ContentPage ==
    <<Mk(HTML_OPEN), AttrUrl(StylesheetUrl), Mk(HEAD_CLOSE),
      Named(TEMPLATE_BEGIN_EDITABLE, "a"), Ch, Mk(TEMPLATE_END_EDITABLE),
      Named(TEMPLATE_BEGIN_REPEAT, "r"), Named(TEMPLATE_BEGIN_EDITABLE, "b"), Ch,
      Mk(TEMPLATE_END_EDITABLE), Mk(TEMPLATE_END_REPEAT), Mk(HTML_CLOSE), Newline>>

\* Content a caller supplies: text, a relative URL, a placeholder, and
\* conditional, optional and editable template markers.
SuppliedContents ==
    {<<PlainY>>,
     <<AttrUrl(Url("relative", 0, <<"other.html">>, "", ""))>>,
     <<Named(TEMPLATE_VARIABLE, "P")>>,
     <<Named(TEMPLATE_BEGIN_IF, "P"), PlainY, Mk(TEMPLATE_END_IF)>>,
     <<Named(TEMPLATE_BEGIN_OPTIONAL, "Q"), PlainY, Mk(TEMPLATE_END_OPTIONAL)>>,
     <<Named(TEMPLATE_BEGIN_EDITABLE, "x"), PlainY, Mk(TEMPLATE_END_EDITABLE)>>}

ContentInputs ==
    {Options(ContentPage, TemplatePath, params, <<>>, <<Entry("a", top)>>, TRUE, instancePath,
             <<Entry("r", << <<Entry("b", inEntry)>> >>)>>) :
        params \in {<<>>, <<Entry("P", "v"), Entry("Q", "false")>>},
        top \in SuppliedContents, inEntry \in SuppliedContents,
        instancePath \in {"", "/index.html"}}

InitContent ==
    /\ ParserIdle /\ EngineIdle
    /\ rOptions \in ContentInputs
    /\ rSteps = <<>> /\ rFirst = <<>> /\ rBetween = FALSE
    /\ lastIndex = [r \in Regexes |-> 0]
    /\ condResult = <<>> /\ rewriteResult = <<>> /\ loop = <<>>

SpecContent == InitContent /\ [][NextResolve]_vars

\* ---------------------------------------------------------- content claims
\* The output holds the region of a name with exactly this content.
HoldsRegion(out, name, content) ==
    \E i \in 1..Len(out) :
        /\ i + Len(content) + 1 <= Len(out)
        /\ SubSeq(out, i, i + Len(content) + 1)
             = <<Named(INSTANCE_BEGIN_EDITABLE, name)>> \o content
               \o <<Mk(INSTANCE_END_EDITABLE)>>

\* C24 as stated: the content supplied for a top-level editable region and
\* the content supplied for an editable region of a repeat entry stand in
\* the output as supplied, between the region's InstanceBeginEditable and
\* InstanceEndEditable markers.
C24_SuppliedContentVerbatim ==
    Resolved =>
        /\ HoldsRegion(RS.out, "a", MapGet(rOptions.editableContents, "a"))
        /\ HoldsRegion(RS.out, "b", MapGet(MapGet(rOptions.repeatEntries, "r")[1], "b"))

\* ------------------------------------------------------------- revert runs
\* User edits and reverts, in the active editor or with another one active,
\* the undo command succeeding or being rejected.
NextRevert ==
    \/ ActivateEditor \/ DeactivateEditor \/ UserEdit
    \/ RevertUndoRuns \/ RevertUndoThrows \/ RevertFinishes

SpecRevert == InitEngine /\ [][NextRevert]_vars

\* ----------------------------------------------------------- revert claims
\* C26: the change event of the undo of a blocked edit is ignored (nothing
\* the engine keeps changes and no revert starts), a revert only starts
\* when none is running, after its undo command nothing follows but the
\* end of the revert, and isReverting is true exactly while a revert runs:
\* it is false once the revert has ended, the undo having run, having been
\* skipped or having been rejected.
C26_NoRevertLoop ==
    [][/\ (revertPc = "awaitUndo" /\ revertPc' = "undone")
            => UNCHANGED <<cache, lastParseResult, isReverting, judged, undoSkipped>>
       /\ (revertPc # "awaitUndo" /\ revertPc' = "awaitUndo")
            => revertPc = "idle" /\ ~isReverting
       /\ revertPc = "undone" => revertPc' \in {"undone", "idle"}
       /\ isReverting' <=> revertPc' \in {"awaitUndo", "undone"}
       /\ (judged' # <<>> /\ revertPc' = "idle") => judged'[1].finished]_vars

\* A blocked edit has been undone and its revert has ended: the text is the
\* text before the edit and the flag is false.
C26_Witness ==
    /\ judged # <<>> /\ judged[1].violation /\ judged[1].undoIssued /\ judged[1].finished
    /\ ~judged[1].interrupted
    /\ revertPc = "idle" /\ ~isReverting
    /\ docText = judged[1].pre
    /\ docVersion > 2

\* -------------------------------------------------------------- range runs
MaxOffset == 4

\* vscode.Range orders its two positions: start is never after end.
Ranges ==
    {r \in {Range(s, e) : s \in 0..MaxOffset, e \in 0..MaxOffset} : r.start <= r.end}

InitRanges ==
    /\ pText = <<>> /\ pResult = <<>>
    /\ rangeCall \in {<<[a |-> a, b |-> b]>> : a \in Ranges, b \in Ranges}
    /\ EngineIdle /\ ResolverIdle

\* rangeOverlaps in both orders and rangeContains on the two ranges.
CompareRanges ==
    /\ rangeCall # <<>>
    /\ DOMAIN rangeCall[1] = {"a", "b"}
    /\ rangeCall' = <<[a |-> rangeCall[1].a, b |-> rangeCall[1].b,
                       overlaps |-> rangeOverlaps(rangeCall[1].a, rangeCall[1].b),
                       reversed |-> rangeOverlaps(rangeCall[1].b, rangeCall[1].a),
                       contains |-> rangeContains(rangeCall[1].a, rangeCall[1].b)]>>
    /\ UNCHANGED <<pText, pResult, engineVars, resolverVars>>

NextRanges == CompareRanges

SpecRanges == InitRanges /\ [][NextRanges]_vars

\* ------------------------------------------------------------ range claims
Compared == rangeCall # <<>> /\ "overlaps" \in DOMAIN rangeCall[1]

RC == rangeCall[1]

\* The end of one range is the start of the other.
Touching(a, b) == a.end = b.start \/ b.end = a.start

\* C27 as stated: rangeOverlaps gives the same for both orders, is false
\* for ranges that only touch and true for a range and itself;
\* rangeContains(outer, inner) is true exactly when outer.start <=
\* inner.start and inner.end <= outer.end, so a range contains itself.
C27_OverlapsAndContains ==
    Compared =>
        /\ RC.overlaps = RC.reversed
        /\ Touching(RC.a, RC.b) => ~RC.overlaps
        /\ RC.a = RC.b => RC.overlaps
        /\ RC.contains <=> (RC.a.start <= RC.b.start /\ RC.b.end <= RC.a.end)
        /\ RC.a = RC.b => RC.contains

\* C27, amended: as stated, but a range overlaps itself exactly when it is
\* not empty.
C27_OverlapsNonEmptySelf ==
    Compared =>
        /\ RC.overlaps = RC.reversed
        /\ Touching(RC.a, RC.b) => ~RC.overlaps
        /\ RC.a = RC.b => (RC.overlaps <=> RC.a.start < RC.a.end)
        /\ RC.contains <=> (RC.a.start <= RC.b.start /\ RC.b.end <= RC.a.end)
        /\ RC.a = RC.b => RC.contains

\* An empty range has been compared with itself: it contains itself and
\* does not overlap itself.
C27_Witness ==
    /\ Compared
    /\ RC.a = RC.b /\ RC.a.start = RC.a.end
    /\ ~RC.overlaps /\ ~RC.reversed /\ RC.contains

\* ------------------------------------------------------------ overlap runs
\* Two programmatic operations on the open document: the properties panel
\* updating a parameter and the update panel applying the template.  In
\* these runs progPc maps each operation to its position.
Operations == {"updateInstanceParam", "updateInstances"}

InitOverlap ==
    /\ ParserIdle /\ ResolverIdle
    /\ docText \in {InstancePage} \cup ResolvedPages
    /\ docVersion = 1
    /\ undoStack = <<>> /\ redoStack = <<>>
    /\ activeIsDoc = TRUE
    /\ enableProtection = TRUE
    /\ cache = <<[version |-> 1, result |-> parseDocument(docText)]>>
    /\ lastParseResult = <<parseDocument(docText)>>
    /\ isReverting = FALSE /\ isProgrammaticEdit = FALSE
    /\ revertPc = "idle" /\ progPc = [op \in Operations |-> "idle"]
    /\ judged = <<>> /\ undoSkipped = FALSE

\* beginProgrammaticEdit(uri) of an operation
OperationBegins ==
    /\ \E op \in Operations :
          /\ progPc[op] = "idle"
          /\ progPc' = [progPc EXCEPT ![op] = "begun"]
    /\ docVersion < MaxVersion
    /\ isProgrammaticEdit' = TRUE
    /\ UNCHANGED <<parserVars, resolverVars, docText, docVersion, undoStack, redoStack,
                   activeIsDoc, enableProtection, cache, lastParseResult, isReverting,
                   revertPc, judged, undoSkipped>>

\* The operation replaces the whole text; the change event reaches
\* onDocumentChange.
OperationEdits ==
    /\ \E op \in Operations :
          /\ progPc[op] = "begun"
          /\ progPc' = [progPc EXCEPT ![op] = "edited"]
    /\ docVersion < MaxVersion
    /\ \E resolved \in ResolvedPages \ {docText} :
          EditArrives(<<Change(0, Len(docText), resolved)>>)

\* The finally block of the operation, after its edit or after an
\* exception before it: endProgrammaticEdit(uri).
OperationEnds ==
    /\ \E op \in Operations :
          /\ progPc[op] \in {"begun", "edited"}
          /\ progPc' = [progPc EXCEPT ![op] = "idle"]
    /\ isProgrammaticEdit' = FALSE
    /\ UNCHANGED <<parserVars, resolverVars, docText, docVersion, undoStack, redoStack,
                   activeIsDoc, enableProtection, cache, lastParseResult, isReverting,
                   revertPc, judged, undoSkipped>>

NextOverlap ==
    \/ OperationBegins \/ OperationEdits \/ OperationEnds
    \/ RevertUndoRuns \/ RevertFinishes

SpecOverlap == InitOverlap /\ [][NextOverlap]_vars

\* ---------------------------------------------------------- overlap claims
\* C28 as stated: while either operation is between its
\* beginProgrammaticEdit and its endProgrammaticEdit the flag is true, once
\* both have ended it is false, and no change event of an operation is
\* judged (in these runs every change event but those of reverts is an
\* operation's).
C28_FlagCoversEveryOperation ==
    /\ (\E op \in Operations : progPc[op] # "idle") => isProgrammaticEdit
    /\ (\A op \in Operations : progPc[op] = "idle") => ~isProgrammaticEdit
    /\ judged = <<>>

\* ------------------------------------------------------- re-application runs
MaxBodyLen == 3

\* The content of each region under its name; a later region of the same
\* name replaces an earlier one (Map.set).
ContentsOf(doc, regions) ==
    MapSetAll(<<>>, [j \in 1..Len(regions) |->
                        Entry(regions[j].name,
                              Slice(doc, regions[j].contentRange.start,
                                    regions[j].contentRange.end))])

\* The options applyTemplateToFile collects from the parsed instance.
CollectedOptions(doc, parseResult, templateText, templatePath, instancePath) ==
    Options(templateText, templatePath,
            MapSetAll(<<>>, [j \in 1..Len(parseResult.instanceParams) |->
                                Entry(parseResult.instanceParams[j].name,
                                      parseResult.instanceParams[j].value)]),
            MapSetAll(<<>>, [j \in 1..Len(parseResult.instanceParams) |->
                                Entry(parseResult.instanceParams[j].name,
                                      parseResult.instanceParams[j].type)]),
            ContentsOf(doc, parseResult.editableRegions),
            parseResult.templateDeclaration[1].codeOutsideHTMLIsLocked,
            instancePath,
            MapSetAll(<<>>, [j \in 1..Len(parseResult.repeatRegions) |->
                                Entry(parseResult.repeatRegions[j].name,
                                      [e \in 1..Len(parseResult.repeatRegions[j].entries) |->
                                          ContentsOf(doc, parseResult.repeatRegions[j].entries[e]
                                                             .editableRegions)])]))

\* Templates: a page around a short body, and pages with two regions of
\* one name, at top level and inside a repeat region.
ReapplyAlphabet ==
    {Ch, Named(TEMPLATE_BEGIN_EDITABLE, "a"), Mk(TEMPLATE_END_EDITABLE),
     Named(TEMPLATE_BEGIN_REPEAT, "r"), Mk(TEMPLATE_END_REPEAT)}

SameNameBody ==
    <<Named(TEMPLATE_BEGIN_EDITABLE, "a"), Ch, Mk(TEMPLATE_END_EDITABLE),
      Named(TEMPLATE_BEGIN_EDITABLE, "a"), PlainY, Mk(TEMPLATE_END_EDITABLE)>>

RepeatBody ==
    <<Named(TEMPLATE_BEGIN_EDITABLE, "b"), Ch, Mk(TEMPLATE_END_EDITABLE),
      Named(TEMPLATE_BEGIN_REPEAT, "r"), Named(TEMPLATE_BEGIN_EDITABLE, "a"), PlainY,
      Mk(TEMPLATE_END_EDITABLE), Mk(TEMPLATE_END_REPEAT)>>

ReapplyInputs ==
    {Options(<<Mk(HTML_OPEN), Mk(HEAD_CLOSE)>> \o body \o <<Mk(HTML_CLOSE), Newline>>,
             TemplatePath, params, <<>>, contents, TRUE, instancePath, entries) :
        body \in SeqsUpTo(ReapplyAlphabet, MaxBodyLen) \cup {SameNameBody, RepeatBody},
        params \in {<<>>, <<Entry("P", "v")>>},
        contents \in {<<>>, <<Entry("a", <<PlainZ>>)>>},
        instancePath \in {"", "/index.html"},
        entries \in {<<>>, <<Entry("r", << <<Entry("a", <<PlainZ>>)>>, <<>> >>)>>}}

InitReapply ==
    /\ ParserIdle /\ EngineIdle
    /\ rOptions \in ReapplyInputs
    /\ rSteps = <<>> /\ rFirst = <<>> /\ rBetween = FALSE
    /\ lastIndex = [r \in Regexes |-> 0]
    /\ condResult = <<>> /\ rewriteResult = <<>> /\ loop = <<>>

\* applyTemplateToFile on the document the last call produced: the document
\* is parsed, the template is resolved with what the parse gives and the
\* result replaces the document.  rFirst keeps the document as it was,
\* rBetween tells that this was the second re-application.
Reapply ==
    /\ rSteps # <<>>
    /\ ~rBetween
    /\ rFirst' = <<[options |-> rOptions, out |-> rSteps[1].out]>>
    /\ rBetween' = (rFirst # <<>>)
    /\ IF parseDocument(rSteps[1].out).templateDeclaration = <<>>
       THEN UNCHANGED <<rOptions, rSteps, lastIndex>>
       ELSE /\ rOptions' = CollectedOptions(rSteps[1].out, parseDocument(rSteps[1].out),
                                            rOptions.templateText, rOptions.templatePath,
                                            rOptions.instancePath)
            /\ rSteps' = <<ResolveSteps(rOptions',
                                        RegexTest(INSTANCE_BEGIN_RE_FLAGS,
                                                  lastIndex["INSTANCE_BEGIN_RE"],
                                                  rOptions.templateText,
                                                  INSTANCE_BEGIN).matched)>>
            /\ lastIndex' =
                  [r \in Regexes |->
                     IF r \in UsedRegexes(rOptions', rSteps'[1].nested) THEN 0
                     ELSE lastIndex[r]]
    /\ UNCHANGED <<parserVars, engineVars, condResult, rewriteResult, loop>>

NextReapply == Resolve \/ Reapply

SpecReapply == InitReapply /\ [][NextReapply]_vars

\* ----------------------------------------------------- re-application claims
\* The editable regions of a document in document order, each with its name
\* and its content.
RegionContents(doc) ==
    [j \in 1..Len(parseDocument(doc).editableRegions) |->
        [name |-> parseDocument(doc).editableRegions[j].name,
         content |-> Slice(doc, parseDocument(doc).editableRegions[j].contentRange.start,
                           parseDocument(doc).editableRegions[j].contentRange.end)]]

\* C29 as stated: after a re-application every editable region of the
\* document has the content it had before, and a second re-application
\* leaves the document as the first one made it.
C29_ReapplyPreservesContent ==
    (Resolved /\ rFirst # <<>>) =>
        /\ RegionContents(RS.out) = RegionContents(rFirst[1].out)
        /\ rBetween => RS.out = rFirst[1].out

\* -------------------------------------------------------------- entry runs
MaxEntryLen == 5

\* What stands inside a repeat region of an instance page.
EntryAlphabet ==
    {Ch, Mk(INSTANCE_BEGIN_REPEAT_ENTRY), Mk(INSTANCE_END_REPEAT_ENTRY),
     Named(INSTANCE_BEGIN_EDITABLE, "a"), Mk(INSTANCE_END_EDITABLE)}

\* Instance pages of one repeat region, and short templates.
EntryInputs ==
    {<<Tok(INSTANCE_BEGIN, "/T.dwt", "", "true"), Named(INSTANCE_BEGIN_REPEAT, "r")>>
        \o inside \o <<Mk(INSTANCE_END_REPEAT)>> :
        inside \in SeqsUpTo(EntryAlphabet, MaxEntryLen)}
    \cup SeqsUpTo(TemplateAlphabet, 3)

InitEntries ==
    /\ pText \in EntryInputs
    /\ pResult = <<>> /\ rangeCall = <<>>
    /\ EngineIdle
    /\ ResolverIdle

SpecEntries == InitEntries /\ [][NextParse]_vars

\* ------------------------------------------------------------ entry claims
Inside(inner, from, to) == from <= inner.start /\ inner.end <= to

Ordered(r) == r.start <= r.end

\* C30 as stated: for every repeat region of the parse, every entry's
\* fullRange lies between the end of the region's begin marker and the
\* start of its end marker, the entries are in document order and do not
\* overlap, every editable region of an entry lies inside the entry's
\* contentRange, every range has start <= end, and a template has no
\* entries.
C30_EntriesWellFormed ==
    Parsed =>
        \A j \in 1..Len(PR.repeatRegions) :
            /\ PR.fileType = "template" => PR.repeatRegions[j].entries = <<>>
            /\ Ordered(PR.repeatRegions[j].beginMarkerRange)
            /\ Ordered(PR.repeatRegions[j].endMarkerRange)
            /\ Ordered(PR.repeatRegions[j].fullRange)
            /\ \A e \in 1..Len(PR.repeatRegions[j].entries) :
                  /\ Inside(PR.repeatRegions[j].entries[e].fullRange,
                            PR.repeatRegions[j].beginMarkerRange.end,
                            PR.repeatRegions[j].endMarkerRange.start)
                  /\ Ordered(PR.repeatRegions[j].entries[e].fullRange)
                  /\ Ordered(PR.repeatRegions[j].entries[e].contentRange)
                  /\ \A f \in (e + 1)..Len(PR.repeatRegions[j].entries) :
                        PR.repeatRegions[j].entries[e].fullRange.end
                           <= PR.repeatRegions[j].entries[f].fullRange.start
                  /\ \A x \in 1..Len(PR.repeatRegions[j].entries[e].editableRegions) :
                        /\ Inside(PR.repeatRegions[j].entries[e].editableRegions[x].fullRange,
                                  PR.repeatRegions[j].entries[e].contentRange.start,
                                  PR.repeatRegions[j].entries[e].contentRange.end)
                        /\ Ordered(PR.repeatRegions[j].entries[e].editableRegions[x].fullRange)
                        /\ Ordered(PR.repeatRegions[j].entries[e].editableRegions[x]
                                      .contentRange)

====
